---- MODULE Spec2Model ----
(***************************************************************************)
(* Model of the ScholarViz tutoring backend (src/app): the /ask pipeline   *)
(* of api.py, the evidence and citation policy, the Gemini client with its *)
(* fallback tiers and JSON recovery, and the TF-IDF librarian.             *)
(*                                                                         *)
(* Strings are sequences of one-character strings, so that substring       *)
(* tests, strip(), slicing and formatting are computed and not assumed.    *)
(* A canned literal of the source that contains none of the characters the *)
(* code inspects is written as one element holding the whole literal.      *)
(* Python values of mixed type (JSON) are tagged records, see None, Str,   *)
(* IntV, List and the records with t = "dict".                            *)
(***************************************************************************)
EXTENDS Integers, Sequences, FiniteSets, TLC

VARIABLES
    call,     \* the last application of a helper function: its arguments and result
    kb,       \* Librarian.kb: the knowledge base loaded at start-up
    scores,   \* per query, the relevance score of every document of kb
    order,    \* per score vector, the index order np.argsort yields in this build
    cache,    \* the lru_cache of Librarian.retrieve: (query, top_k) -> result
    ret,      \* the retrieve calls made so far, each with its outcome
    pc,       \* the statement of ask the request in progress is at
    req,      \* the AskRequest in progress
    llm,      \* the GeminiClient singleton: its configuration and last usage
    db,       \* the database: session open or not, the committed rows
    loc,      \* the local variables of ask, the collaborators called, the exception raised
    resp,     \* what the request ended with
    served    \* the number of requests served

librarian == <<kb, scores, order, cache, ret>>

pipeline == <<pc, req, llm, db, loc, resp, served>>
vars == <<call, kb, scores, order, cache, ret, pc, req, llm, db, loc, resp, served>>

-----------------------------------------------------------------------------
(* Python values *)

None == [t |-> "none"]
Str(s) == [t |-> "str", s |-> s]
IntV(n) == [t |-> "int", n |-> n]
List(xs) == [t |-> "list", xs |-> xs]

IsStr(v) == v.t = "str"
IsInt(v) == v.t = "int"
IsList(v) == v.t = "list"
IsDict(v) == v.t = "dict"

\* bool(v)
Truthy(v) ==
    CASE v.t = "none" -> FALSE
      [] v.t = "str" -> v.s # <<>>
      [] v.t = "int" -> v.n # 0
      [] v.t = "list" -> v.xs # <<>>
      [] OTHER -> TRUE

\* a or b
PyOr(a, b) == IF Truthy(a) THEN a ELSE b

\* isinstance(v, str) and v
NonEmptyStr(v) == IsStr(v) /\ v.s # <<>>

-----------------------------------------------------------------------------
(* Sequences and strings *)

Min(a, b) == IF a < b THEN a ELSE b
Max(a, b) == IF a > b THEN a ELSE b

Range(s) == {s[i] : i \in 1..Len(s)}

\* all sequences over S of length 0..n
SeqsUpTo(S, n) == UNION {[1..k -> S] : k \in 0..n}

\* s[:k] for k >= 0
Take(s, k) == SubSeq(s, 1, Min(k, Len(s)))

\* s[k:] for k >= 0 (k counts dropped elements)
Drop(s, k) == SubSeq(s, k + 1, Len(s))

\* sub in s, for strings
Contains(sub, s) ==
    \E i \in 0..(Len(s) - Len(sub)) : SubSeq(s, i + 1, i + Len(sub)) = sub

\* c in s, for one character
HasChar(c, s) == \E i \in 1..Len(s) : s[i] = c

Whitespace == {" ", "\n", "\t"}

RECURSIVE LStrip(_)
LStrip(s) == IF s # <<>> /\ Head(s) \in Whitespace THEN LStrip(Tail(s)) ELSE s

RECURSIVE RStrip(_)
RStrip(s) ==
    IF s # <<>> /\ s[Len(s)] \in Whitespace THEN RStrip(SubSeq(s, 1, Len(s) - 1)) ELSE s

\* s.strip()
Strip(s) == RStrip(LStrip(s))

DigitChar == <<"0", "1", "2", "3", "4", "5", "6", "7", "8", "9">>

\* str(n) for an integer n >= 0
RECURSIVE Digits(_)
Digits(n) ==
    IF n < 10 THEN <<DigitChar[n + 1]>>
    ELSE Digits(n \div 10) \o <<DigitChar[(n % 10) + 1]>>

\* the id "kb_scope_001" of api.py
KbScope001 == <<"k", "b", "_", "s", "c", "o", "p", "e", "_", "0", "0", "1">>

-----------------------------------------------------------------------------
(* api.py: _evidence_pool *)

\* retrieved_docs[:5]
PoolDocCap == 5

\* highlights[:10]
PoolHighlightCap == 10

\* f"{aid}:L{line_no}"
LineRef(aid, line_no) == aid \o <<":", "L">> \o Digits(line_no)

\* the loop over retrieved_docs[:5]
RECURSIVE PoolDocIds(_)
PoolDocIds(docs) ==
    IF docs = <<>> THEN <<>>
    ELSE LET did == Head(docs).id
         IN (IF NonEmptyStr(did) THEN <<did.s>> ELSE <<>>) \o PoolDocIds(Tail(docs))

\* the loop over case["artifacts"]
RECURSIVE PoolArtifactIds(_)
PoolArtifactIds(arts) ==
    IF arts = <<>> THEN <<>>
    ELSE LET a == Head(arts)
             aid == IF IsDict(a) THEN PyOr(a.artifact_id, a.id) ELSE None
         IN (IF IsDict(a) /\ NonEmptyStr(aid) THEN <<aid.s>> ELSE <<>>)
                \o PoolArtifactIds(Tail(arts))

\* the loop over highlights[:10]
RECURSIVE PoolLineRefs(_)
PoolLineRefs(hls) ==
    IF hls = <<>> THEN <<>>
    ELSE LET h == Head(hls)
             ok == /\ IsDict(h)
                   /\ NonEmptyStr(h.artifact_id)
                   /\ IsInt(h.line)
                   /\ h.line.n > 0
         IN (IF ok THEN <<LineRef(h.artifact_id.s, h.line.n)>> ELSE <<>>)
                \o PoolLineRefs(Tail(hls))

\* case.get("artifacts") or [] when case is a dict, else nothing
CaseArtifacts(case) ==
    IF IsDict(case) /\ Truthy(case.artifacts) THEN case.artifacts.xs ELSE <<>>

\* the list ev before de-duplication
EvConcatNoDocCap(retrieved_docs, case, highlights) ==
    PoolDocIds(retrieved_docs)
        \o PoolArtifactIds(CaseArtifacts(case))
        \o PoolLineRefs(Take(highlights, PoolHighlightCap))

EvConcat(retrieved_docs, case, highlights) ==
    PoolDocIds(Take(retrieved_docs, PoolDocCap))
        \o PoolArtifactIds(CaseArtifacts(case))
        \o PoolLineRefs(Take(highlights, PoolHighlightCap))

\* a de-duplication that keeps every element
DedupNot(ev) == ev

\* "De-dup but preserve order"
RECURSIVE DedupFrom(_, _)
DedupFrom(ev, seen) ==
    IF ev = <<>> THEN <<>>
    ELSE IF Head(ev) \in seen THEN DedupFrom(Tail(ev), seen)
         ELSE <<Head(ev)>> \o DedupFrom(Tail(ev), seen \cup {Head(ev)})

Dedup(ev) == DedupFrom(ev, {})

_evidence_pool(retrieved_docs, case, highlights) ==
    Dedup(EvConcat(retrieved_docs, case, highlights))


-----------------------------------------------------------------------------
(* api.py: _ensure_text_has_citation *)

\* "I don't have enough evidence to answer."
NoEvidenceText == <<"I don't have enough evidence to answer", ".">>

\* f"{txt} [{evidence_ids[0]}]"
WithCitation(txt, id) == txt \o <<" ", "[">> \o id \o <<"]">>

\* cites the pool even when the text already holds both brackets
EnsureCitationAlways(text, evidence_ids) ==
    LET stripped == Strip(text)
        txt == IF stripped = <<>> THEN NoEvidenceText ELSE stripped
    IN IF evidence_ids # <<>> THEN WithCitation(txt, evidence_ids[1]) ELSE txt

_ensure_text_has_citation(text, evidence_ids) ==
    LET stripped == Strip(text)
        txt == IF stripped = <<>> THEN NoEvidenceText ELSE stripped
    IN IF HasChar("[", txt) /\ HasChar("]", txt) THEN txt
       ELSE IF evidence_ids # <<>> THEN WithCitation(txt, evidence_ids[1])
       ELSE txt

-----------------------------------------------------------------------------
(* api.py: _normalize_tutoring_payload and the postprocessing of ask *)

Step(step, evidence) ==
    [t |-> "dict", step |-> step, text |-> None, evidence |-> evidence, evidence_ids |-> None]

Practice(question, evidence_ids) ==
    [t |-> "dict", question |-> question, evidence_ids |-> evidence_ids]

Tutoring(final_answer_text, long_answer_text, steps, practice) ==
    [t |-> "dict", final_answer_text |-> final_answer_text, final_answer |-> None,
     long_answer_text |-> long_answer_text, steps |-> steps, practice |-> practice]

\* the loop that builds normalized_steps
RECURSIVE NormalizeSteps(_)
NormalizeSteps(steps) ==
    IF steps = <<>> THEN <<>>
    ELSE LET s == Head(steps)
         IN (IF IsDict(s)
             THEN <<[step |-> PyOr(PyOr(s.step, s.text), Str(<<>>)),
                     evidence |-> PyOr(PyOr(s.evidence, s.evidence_ids), List(<<>>))]>>
             ELSE <<>>) \o NormalizeSteps(Tail(steps))

_normalize_tutoring_payload(tutoring) ==
    LET steps == PyOr(tutoring.steps, List(<<>>))
        practice == IF IsDict(PyOr(tutoring.practice, None)) THEN tutoring.practice
                    ELSE Practice(None, None)
    IN [tutor |->
            [final_answer_text |->
                PyOr(PyOr(tutoring.final_answer_text, tutoring.final_answer), Str(<<>>)),
             steps |-> IF IsList(steps) THEN NormalizeSteps(steps.xs) ELSE <<>>],
        practice |->
            [question |-> PyOr(practice.question, Str(<<>>)),
             evidence_ids |-> PyOr(practice.evidence_ids, List(<<>>))]]

\* evidence_ids[:2] if evidence_ids else ["kb_scope_001"]
Backfill(evidence_ids) ==
    IF evidence_ids # <<>>
    THEN List([i \in 1..Min(2, Len(evidence_ids)) |-> Str(evidence_ids[i])])
    ELSE List(<<Str(KbScope001)>>)

\* [x for x in ev if isinstance(x, str) and x] is not empty
HasEvidenceId(ev) == IsList(ev) /\ \E i \in 1..Len(ev.xs) : NonEmptyStr(ev.xs[i])

\* backfills every step, also one that carries an evidence id
EnsureStepsEvidenceAll(steps, evidence_ids) ==
    [i \in DOMAIN steps |-> [steps[i] EXCEPT !.evidence = Backfill(evidence_ids)]]

\* "Ensure all steps carry evidence."
EnsureStepsEvidence(steps, evidence_ids) ==
    [i \in DOMAIN steps |->
        IF HasEvidenceId(steps[i].evidence) THEN steps[i]
        ELSE [steps[i] EXCEPT !.evidence = Backfill(evidence_ids)]]

\* "Ensure practice has evidence."
EnsurePracticeEvidence(practice, evidence_ids) ==
    IF ~Truthy(PyOr(practice.evidence_ids, List(<<>>)))
    THEN [practice EXCEPT !.evidence_ids = Backfill(evidence_ids)]
    ELSE practice

\* ask, from the normalization to the practice backfill
AskPostprocess(tutoring, retrieved_docs, case, highlights) ==
    LET normalized == _normalize_tutoring_payload(tutoring)
        evidence_ids == _evidence_pool(retrieved_docs, case, highlights)
    IN [tutor |->
            [final_answer_text |->
                _ensure_text_has_citation(normalized.tutor.final_answer_text.s, evidence_ids),
             steps |-> EnsureStepsEvidence(normalized.tutor.steps, evidence_ids)],
        practice |-> EnsurePracticeEvidence(normalized.practice, evidence_ids),
        evidence_ids |-> evidence_ids]

-----------------------------------------------------------------------------
(* gemini_client.py: JSON parsing and recovery *)

Q == "\""

\* s.find(c, from): the first index >= from of the character c, 0 when absent
\* (indices count from 1)
RECURSIVE IndexFrom(_, _, _)
IndexFrom(s, c, from) ==
    IF from > Len(s) THEN 0
    ELSE IF s[from] = c THEN from
    ELSE IndexFrom(s, c, from + 1)

\* s.rfind(c)
RECURSIVE LastIndex(_, _, _)
LastIndex(s, c, upto) ==
    IF upto < 1 THEN 0
    ELSE IF s[upto] = c THEN upto
    ELSE LastIndex(s, c, upto - 1)

\* s.find(sub): the first index where sub starts, 0 when absent
RECURSIVE FindSub(_, _, _)
FindSub(s, sub, from) ==
    IF from + Len(sub) - 1 > Len(s) THEN 0
    ELSE IF SubSeq(s, from, from + Len(sub) - 1) = sub THEN from
    ELSE FindSub(s, sub, from + 1)

\* s.replace(sub, rep)
RECURSIVE ReplaceAll(_, _, _)
ReplaceAll(s, sub, rep) ==
    IF s = <<>> THEN <<>>
    ELSE IF Len(s) >= Len(sub) /\ SubSeq(s, 1, Len(sub)) = sub
         THEN rep \o ReplaceAll(Drop(s, Len(sub)), sub, rep)
         ELSE <<Head(s)>> \o ReplaceAll(Tail(s), sub, rep)

\* s.startswith(prefix)
StartsWith(s, prefix) == Len(s) >= Len(prefix) /\ SubSeq(s, 1, Len(prefix)) = prefix

\* a key that is absent from a JSON object
Missing == [t |-> "missing"]

\* d.get(key, default)
GetOr(v, default) == IF v = Missing THEN default ELSE v

\* d.get(key)
Get(v) == GetOr(v, None)

\* str(v); the texts of the model apply it to strings, null and numbers only
PyStr(v) ==
    CASE v.t = "str" -> v.s
      [] v.t = "none" -> <<"N", "o", "n", "e">>
      [] v.t = "int" -> Digits(v.n)
      [] OTHER -> <<"[", "]">>

\* a step and a practice as json.loads yields them
JsonStep(step, evidence) == [t |-> "dict", step |-> step, evidence |-> evidence]
JsonPractice(question, evidence_ids) ==
    [t |-> "dict", question |-> question, evidence_ids |-> evidence_ids]

\* the JSON values other than string literals that the texts of the service
\* hold; each is one element of the text and stands for the characters of
\* the value, which include neither the key final_answer nor a newline
JsonTokenValue ==
    [tok \in {"null", "7", "[]", "[step,step]", "[step-no-evidence]", "[6 steps]",
              "[step-empty-text]", "{practice}", "{practice-empty-ids}",
              "{practice-no-question}", "{practice-blank-ids}"} |->
        CASE tok = "null" -> None
          [] tok = "7" -> IntV(7)
          [] tok = "[]" -> List(<<>>)
          [] tok = "[step,step]" ->
                List(<<JsonStep(Str(<<"s">>), List(<<Str(<<"d", "1">>)>>)),
                       JsonStep(Str(<<"t">>), List(<<Str(<<"a", "1">>)>>))>>)
          [] tok = "[step-no-evidence]" ->
                List(<<JsonStep(Str(<<"s">>), Missing), Str(<<"x">>),
                       JsonStep(Str(<<"t">>), List(<<Str(<<>>)>>))>>)
          [] tok = "[6 steps]" ->
                List([i \in 1..6 |-> JsonStep(Str(<<"s">>), List(<<Str(<<"d", "1">>)>>))])
          [] tok = "[step-empty-text]" -> List(<<JsonStep(Str(<<" ">>), Missing)>>)
          [] tok = "{practice}" ->
                JsonPractice(Str(<<"q">>), List(<<Str(<<"d", "1">>)>>))
          [] tok = "{practice-empty-ids}" -> JsonPractice(Str(<<"q">>), List(<<>>))
          [] tok = "{practice-blank-ids}" -> JsonPractice(Str(<<"q">>), List(<<Str(<<>>)>>))
          [] OTHER -> JsonPractice(Str(<<" ">>), Missing)]

\* the result of a failed json.loads
NoParse == [t |-> "noparse"]

\* the keys generate_tutoring reads; other keys are parsed and dropped
EmptyObject ==
    [t |-> "dict", members |-> 0, final_answer |-> Missing, steps |-> Missing,
     practice |-> Missing]

PutMember(obj, key, val) ==
    IF key \in {"final_answer", "steps", "practice"}
    THEN [obj EXCEPT ![key] = val, !.members = @ + 1]
    ELSE [obj EXCEPT !.members = @ + 1]

JsonKeys == {"final_answer", "steps", "practice", "note"}

\* the members of an object from position i on: "key":value, ... }
\* where a value is a string literal without newline or a value of JsonTokenValue
RECURSIVE ParseMembers(_, _, _)
ParseMembers(toks, i, obj) ==
    IF i + 4 > Len(toks) THEN NoParse
    ELSE IF ~(toks[i] = Q /\ toks[i + 1] \in JsonKeys /\ toks[i + 2] = Q /\ toks[i + 3] = ":")
    THEN NoParse
    ELSE LET isStr == toks[i + 4] = Q
             close == IF isStr THEN IndexFrom(toks, Q, i + 5) ELSE 0
             ok == IF isStr
                   THEN close # 0 /\ ~HasChar("\n", SubSeq(toks, i + 5, close - 1))
                   ELSE toks[i + 4] \in DOMAIN JsonTokenValue
             val == IF isStr THEN Str(SubSeq(toks, i + 5, close - 1))
                    ELSE JsonTokenValue[toks[i + 4]]
             next == IF isStr THEN close + 1 ELSE i + 5
         IN IF ~ok \/ next > Len(toks) THEN NoParse
            ELSE IF next = Len(toks) /\ toks[next] = "}" THEN PutMember(obj, toks[i + 1], val)
            ELSE IF next < Len(toks) /\ toks[next] = ","
                 THEN ParseMembers(toks, next + 1, PutMember(obj, toks[i + 1], val))
            ELSE NoParse

\* json.loads, on the texts described at JsonTokenValue
JsonLoads(cand) ==
    IF cand = <<"{", "}">> THEN EmptyObject
    ELSE IF Len(cand) >= 2 /\ cand[1] = "{" /\ cand[Len(cand)] = "}"
         THEN ParseMembers(cand, 2, EmptyObject)
    ELSE IF Len(cand) = 1 /\ cand[1] \in DOMAIN JsonTokenValue THEN JsonTokenValue[cand[1]]
    ELSE NoParse

_extract_json_candidate(s) ==
    LET start == IndexFrom(s, "{", 1)
        end == LastIndex(s, "}", Len(s))
    IN IF s = <<>> \/ start = 0 \/ end = 0 \/ end <= start THEN <<>>
       ELSE Strip(SubSeq(s, start, end))

\* None is returned as NoParse
_safe_json_obj(s) ==
    IF s = <<>> THEN NoParse
    ELSE LET cand == IF _extract_json_candidate(s) # <<>> THEN _extract_json_candidate(s)
                     ELSE s
             obj == JsonLoads(cand)
         IN IF IsDict(obj) THEN obj ELSE NoParse

\* recovers nothing: the canned answer follows a failed parse at once
RecoverNothing(raw) == <<>>

_recover_partial_final_answer(raw) ==
    IF raw = <<>> \/ ~HasChar("final_answer", raw) THEN <<>>
    ELSE LET k2 == FindSub(raw, <<Q, "final_answer", Q>>, 1)
             key_idx == IF k2 # 0 THEN k2 ELSE FindSub(raw, <<"'", "final_answer", "'">>, 1)
             colon_idx == IF key_idx = 0 THEN 0 ELSE IndexFrom(raw, ":", key_idx)
             q1 == IF colon_idx = 0 THEN 0 ELSE IndexFrom(raw, Q, colon_idx + 1)
             q2 == IF q1 = 0 THEN 0 ELSE IndexFrom(raw, Q, q1 + 1)
             val == IF q2 = 0 THEN Strip(Drop(raw, q1)) ELSE Strip(SubSeq(raw, q1 + 1, q2 - 1))
         IN IF key_idx = 0 \/ colon_idx = 0 \/ q1 = 0 THEN <<>>
            ELSE Strip(ReplaceAll(ReplaceAll(val, <<"\\", "n">>, <<" ">>), <<"\n">>, <<" ">>))

\* len(s) > 280
SanitizeCap == 280

\* re.sub(r"\[[^\]]*$", "", s): cut at the first '[' that no ']' follows
CutOpenBracket(s) ==
    LET last_close == LastIndex(s, "]", Len(s))
        open == IndexFrom(s, "[", last_close + 1)
    IN IF open = 0 THEN s ELSE SubSeq(s, 1, open - 1)

_sanitize_short_answer(s) ==
    IF s = <<>> THEN <<>>
    ELSE LET cut == Strip(ReplaceAll(Strip(CutOpenBracket(s)), <<"\\", ".">>, <<".">>))
             ended == IF cut # <<>>
                         /\ cut[Len(cut)] \notin {".", "!", "?"}
                      THEN RStrip(cut) \o <<".">> ELSE cut
         IN IF Len(ended) > SanitizeCap
            THEN RStrip(SubSeq(ended, 1, SanitizeCap - 3)) \o <<".", ".", ".">>
            ELSE ended

-----------------------------------------------------------------------------
(* gemini_client.py: _default_steps_practice and generate_tutoring *)

KbUnknown == <<"k", "b", "_", "u", "n", "k", "n", "o", "w", "n">>

\* "Not enough course evidence."
CannedAnswer == <<"Not enough course evidence", ".">>

\* long_answer[:2397]
LongAnswerCap == 2400

_default_steps_practice(topic, retrieved_docs, lab_artifacts) ==
    LET kb_id == IF retrieved_docs # <<>> THEN retrieved_docs[1].id ELSE Str(KbUnknown)
        arts == IF IsDict(lab_artifacts) THEN PyOr(lab_artifacts.artifacts, List(<<>>)).xs
                ELSE <<>>
        art_id == IF arts # <<>>
                  THEN PyOr(PyOr(arts[1].artifact_id, arts[1].id), Str(<<>>))
                  ELSE Str(<<>>)
        ev == List(<<kb_id>> \o (IF Truthy(art_id) THEN <<art_id>> ELSE <<>>))
    IN IF topic = "phishing"
       THEN [steps |->
                <<Step(Str(<<"Do not click the link", ".", " Verify the sender and URL using a trusted method", ".">>), ev),
                  Step(Str(<<"Check for urgent language and mismatched domains, then report or delete the message", ".">>), ev)>>,
             practice |->
                Practice(Str(<<"What is the safest first action when an email urges you to verify an account via a link", "?">>), ev)]
       ELSE [steps |->
                <<Step(Str(<<"Identify the key indicator in the artifact that matches the concept diagram", ".">>), ev),
                  Step(Str(<<"Choose the next defensive action based on course guidance and document evidence", ".">>), ev)>>,
             practice |->
                Practice(Str(<<"Which action best follows the course guidance for this scenario", "?">>),
                         List(<<kb_id>>))]

\* for s in steps_in[:5]: the steps that are objects
RECURSIVE TutorSteps(_)
TutorSteps(steps_in) ==
    IF steps_in = <<>> THEN <<>>
    ELSE LET s == Head(steps_in)
         IN (IF IsDict(s)
             THEN <<Step(Str(Strip(PyStr(GetOr(s.step, Str(<<>>))))),
                         PyOr(GetOr(s.evidence, List(<<>>)), List(<<>>)))>>
             ELSE <<>>) \o TutorSteps(Tail(steps_in))

\* steps_in[:5]
TutorStepCap == 5

\* generate_tutoring, given the texts raw1 and long_answer that its two calls
\* of _call_model returned
generate_tutoring(raw1_text, long_text, topic, retrieved_docs, lab_artifacts) ==
    LET raw1 == Strip(raw1_text)
        parsed1 == _safe_json_obj(raw1)
        has_parsed == IsDict(parsed1) /\ parsed1.members > 0
        steps_in == IF has_parsed THEN PyOr(GetOr(parsed1.steps, List(<<>>)), List(<<>>))
                    ELSE List(<<>>)
        steps_parsed == IF IsList(steps_in) THEN TutorSteps(Take(steps_in.xs, TutorStepCap))
                        ELSE <<>>
        p == IF has_parsed THEN PyOr(GetOr(parsed1.practice, None), None) ELSE None
        practice_parsed ==
            IF IsDict(p)
            THEN Practice(Str(Strip(PyStr(GetOr(p.question, Str(<<>>))))),
                          PyOr(GetOr(p.evidence_ids, List(<<>>)), List(<<>>)))
            ELSE Practice(Str(<<>>), List(<<>>))
        recovered == IF has_parsed THEN Strip(PyStr(GetOr(parsed1.final_answer, Str(<<>>))))
                     ELSE _recover_partial_final_answer(raw1)
        d == _default_steps_practice(topic, retrieved_docs, lab_artifacts)
        steps_out == IF steps_parsed = <<>> THEN d.steps ELSE steps_parsed
        practice_out == IF practice_parsed.question.s = <<>> THEN d.practice
                        ELSE practice_parsed
        final_answer == _sanitize_short_answer(IF recovered = <<>> THEN CannedAnswer
                                               ELSE recovered)
        long_stripped == Strip(long_text)
        long_answer == IF long_stripped = <<>> \/ StartsWith(long_stripped, <<"[", "gemini_">>)
                       THEN final_answer ELSE long_stripped
        long_capped == IF Len(long_answer) > LongAnswerCap
                       THEN RStrip(SubSeq(long_answer, 1, LongAnswerCap - 3)) \o <<".", ".", ".">>
                       ELSE long_answer
    IN Tutoring(Str(final_answer), Str(long_capped), List(steps_out), practice_out)

-----------------------------------------------------------------------------
(* librarian.py: Librarian *)

UpperChars == <<"A", "B", "C", "D", "E", "F", "G", "H", "I", "J", "K", "L", "M", "N", "O",
                "P", "Q", "R", "S", "T", "U", "V", "W", "X", "Y", "Z">>
LowerChars == <<"a", "b", "c", "d", "e", "f", "g", "h", "i", "j", "k", "l", "m", "n", "o",
                "p", "q", "r", "s", "t", "u", "v", "w", "x", "y", "z">>

LowerChar(c) ==
    IF \E i \in 1..26 : UpperChars[i] = c
    THEN LowerChars[CHOOSE i \in 1..26 : UpperChars[i] = c]
    ELSE c

\* s.lower()
Lower(s) == [i \in 1..Len(s) |-> LowerChar(s[i])]

WordChars == Range(LowerChars) \cup Range(UpperChars) \cup Range(DigitChar) \cup {"_"}

\* the maximal runs of word characters of s, lowercased, from position i on;
\* cur is the run being read
RECURSIVE WordRuns(_, _, _)
WordRuns(s, i, cur) ==
    IF i > Len(s) THEN (IF cur = <<>> THEN {} ELSE {cur})
    ELSE IF s[i] \in WordChars THEN WordRuns(s, i + 1, cur \o <<LowerChar(s[i])>>)
    ELSE (IF cur = <<>> THEN {} ELSE {cur}) \cup WordRuns(s, i + 1, <<>>)

\* some of the words of stop_words="english"
StopWords == {<<"t", "h", "e">>, <<"i", "s">>, <<"w", "h", "a", "t">>}

\* the terms TfidfVectorizer(stop_words="english") extracts: words of two or
\* more word characters, lowercased, that are no stop words
Terms(text) == {w \in WordRuns(text, 1, <<>>) : Len(w) >= 2 /\ w \notin StopWords}

KbItem(id, title, text) == [t |-> "dict", id |-> id, title |-> title, text |-> text]

\* the vocabulary fitted on the texts of kb
Vocabulary(k) == UNION {Terms(k[i].text) : i \in 1..Len(k)}

\* self.tfidf: None for an empty kb, else the sparse matrix of one row per
\* document and one column per term of the vocabulary
Tfidf(k) ==
    IF k = <<>> THEN None
    ELSE [t |-> "sparse", rows |-> Len(k), cols |-> Cardinality(Vocabulary(k))]

\* the truth value self.tfidf has in "not self.tfidf".  A scipy sparse matrix
\* has a truth value only when its shape is (1, 1), where it is nnz != 0 (the
\* one entry of a fitted 1x1 TF-IDF matrix is 1.0); for any other shape
\* bool() raises ValueError.
TfidfTruth(m) ==
    IF m = None THEN "false"
    ELSE IF m.rows = 1 /\ m.cols = 1 THEN "true"
    ELSE "ValueError"

\* text[:200]
QuoteLen == 200

RetrievedDoc(item) ==
    [t |-> "dict", id |-> item.id, title |-> item.title, quote |-> Take(item.text, QuoteLen)]

\* xs[::-1]
Reverse(xs) == [i \in 1..Len(xs) |-> xs[Len(xs) + 1 - i]]

\* the same without the reversal: the lowest scores first
TopIdxAscending(ord, top_k) == Take(ord, top_k)

\* list(np.argsort(scores)[::-1][:top_k]), for top_k >= 0
TopIdx(ord, top_k) == Take(Reverse(ord), top_k)

\* (self.tfidf @ q_vec.T).toarray().ravel(): the scores of the documents for
\* a query; sc holds them for the queries that share a term with a document,
\* for every other query they are all 0
Scores(k, sc, rewritten_question) ==
    IF rewritten_question \in DOMAIN sc THEN sc[rewritten_question]
    ELSE [i \in 1..Len(k) |-> 0]

\* the body of retrieve: what it returns, or the exception it raises
RetrieveBody(k, sc, ord, rewritten_question, top_k) ==
    LET truth == TfidfTruth(Tfidf(k))
    IN IF truth = "ValueError" THEN [outcome |-> "ValueError", docs |-> <<>>]
       ELSE IF truth = "false" \/ Strip(rewritten_question) = <<>>
            THEN [outcome |-> "return", docs |-> <<>>]
       ELSE LET top_idx == TopIdx(ord[Scores(k, sc, rewritten_question)], top_k)
            IN [outcome |-> "return",
                docs |-> [j \in 1..Len(top_idx) |-> RetrievedDoc(k[top_idx[j]])]]

\* retrieve through @lru_cache: a hit returns the cached list; a miss runs the
\* body and caches what it returns, an exception is cached nowhere
CachedRetrieve(c, k, sc, ord, rewritten_question, top_k) ==
    LET key == <<rewritten_question, top_k>>
        hit == key \in DOMAIN c
        res == IF hit THEN [outcome |-> "return", docs |-> c[key]]
               ELSE RetrieveBody(k, sc, ord, rewritten_question, top_k)
    IN [hit |-> hit, outcome |-> res.outcome, docs |-> res.docs,
        cache |-> IF ~hit /\ res.outcome = "return" THEN c @@ (key :> res.docs) ELSE c]

-----------------------------------------------------------------------------
(* api.py: detect_topic, _is_in_scope and the response builders of ask *)

\* the keywords of _is_in_scope
ScopeKeywords ==
    {<<"p", "h", "i", "s", "h">>,
     <<"e", "m", "a", "i", "l">>,
     <<"s", "m", "b">>,
     <<"l", "a", "t", "e", "r", "a", "l">>,
     <<"c", "r", "e", "d", "e", "n", "t", "i", "a", "l">>,
     <<"p", "a", "s", "s", "w", "o", "r", "d">>,
     <<"m", "a", "l", "w", "a", "r", "e">>,
     <<"i", "n", "c", "i", "d", "e", "n", "t">>,
     <<"a", "t", "t", "a", "c", "k">>,
     <<"s", "e", "c", "u", "r", "i", "t", "y">>,
     <<"e", "x", "f", "i", "l">>,
     <<"p", "r", "i", "v", "i", "l", "e", "g", "e">>,
     <<"l", "o", "g">>,
     <<"p", "c", "a", "p">>}

\* the same test with the keyword "em" for "email"
_is_in_scope_short(message) ==
    \E k \in (ScopeKeywords \ {<<"e", "m", "a", "i", "l">>}) \cup {<<"e", "m">>} : Contains(k, Lower(message))

\* any(k in (message or "").lower() for k in keywords)
_is_in_scope(message) == \E k \in ScopeKeywords : Contains(k, Lower(message))

TopicPhishing == <<"p", "h", "i", "s", "h", "i", "n", "g">>
TopicLateralMovement == <<"l", "a", "t", "e", "r", "a", "l", "_", "m", "o", "v", "e", "m", "e", "n", "t">>
TopicPrivilegeEscalation == <<"p", "r", "i", "v", "i", "l", "e", "g", "e", "_", "e", "s", "c", "a", "l", "a", "t", "i", "o", "n">>
TopicDataExfiltration == <<"d", "a", "t", "a", "_", "e", "x", "f", "i", "l", "t", "r", "a", "t", "i", "o", "n">>
TopicUnknown == <<"u", "n", "k", "n", "o", "w", "n">>
TopicGeneral == <<"g", "e", "n", "e", "r", "a", "l">>

\* str(ui_topic).strip().lower().replace("-", "_"), None when it is empty
_normalize_ui_topic(ui_topic) ==
    IF ui_topic = None THEN None
    ELSE LET t == ReplaceAll(Lower(Strip(PyStr(ui_topic))), <<"-">>, <<"_">>)
         IN IF t = <<>> THEN None ELSE Str(t)

AnyIn(words, t) == \E w \in words : Contains(w, t)

detect_topic(text, ui_topic) ==
    LET forced == _normalize_ui_topic(ui_topic)
        t == Lower(text)
    IN IF Truthy(forced) THEN forced.s
       ELSE IF AnyIn({<<"p", "h", "i", "s", "h">>, <<"e", "m", "a", "i", "l">>, <<"v", "e", "r", "i", "f", "y">>, <<"l", "i", "n", "k">>}, t) THEN TopicPhishing
       ELSE IF AnyIn({<<"l", "a", "t", "e", "r", "a", "l">>, <<"s", "m", "b">>, <<"p", "i", "v", "o", "t">>, <<"c", "r", "e", "d", "e", "n", "t", "i", "a", "l">>}, t) THEN TopicLateralMovement
       ELSE IF AnyIn({<<"p", "r", "i", "v", "i", "l", "e", "g", "e">>, <<"p", "r", "i", "v", "e", "s", "c">>}, t) THEN TopicPrivilegeEscalation
       ELSE IF AnyIn({<<"e", "x", "f", "i", "l">>, <<"d", "a", "t", "a", " ", "t", "h", "e", "f", "t">>}, t) THEN TopicDataExfiltration
       ELSE TopicUnknown

\* the topic as the string gemini_client.py compares with its literals
TopicName(topic) ==
    IF topic = TopicPhishing THEN "phishing"
    ELSE IF topic = TopicLateralMovement THEN "lateral_movement"
    ELSE "unknown"

\* the id of the source that stands for no course source
SourceNone == <<"n", "o", "n", "e">>

\* one entry of sources
Source(id, title, confidence) == [id |-> id, title |-> title, confidence |-> confidence]

\* without the entry that stands for no source
BuildSourcesOfDocsOnly(retrieved_docs, strict_mode) ==
    [i \in DOMAIN retrieved_docs |->
        Source(retrieved_docs[i].id, retrieved_docs[i].title, "1.0")]

_build_sources(retrieved_docs, strict_mode) ==
    IF retrieved_docs # <<>>
    THEN [i \in DOMAIN retrieved_docs |->
            Source(retrieved_docs[i].id, retrieved_docs[i].title, "1.0")]
    ELSE IF strict_mode THEN <<Source(Str(SourceNone), Str(<<"No course sources found">>), "0.0")>>
    ELSE <<Source(Str(TopicGeneral), Str(<<"General knowledge">>), "0.0")>>

\* counts the documents in strict mode only
CoverageInStrictModeOnly(retrieved_docs, strict_mode) ==
    IF retrieved_docs = <<>> \/ ~strict_mode THEN "none"
    ELSE IF Len(retrieved_docs) >= 3 THEN "high"
    ELSE IF Len(retrieved_docs) >= 2 THEN "medium"
    ELSE "low"

_compute_kb_coverage(retrieved_docs, strict_mode) ==
    IF retrieved_docs = <<>> THEN "none"
    ELSE IF Len(retrieved_docs) >= 3 THEN "high"
    ELSE IF Len(retrieved_docs) >= 2 THEN "medium"
    ELSE "low"

\* what a request ends with: the body ask returns (status 200), or the
\* HTTPException of its except clause (status 500)
NoResponse == [status |-> 0]

ErrorResponse == [status |-> 500]

\* the body of the refusal, lines 394-418
RefusalResponse ==
    [status |-> 200,
     topic |-> TopicGeneral,
     title |-> <<"Out of Scope">>,
     summary |-> <<"I can only help with course topics like phishing and lateral movement", ".",
                   " Please rephrase your question as a cybersecurity incident or lab question", ".">>,
     diagram |-> [type |-> "mermaid",
                  code |-> <<"graph TD\nA[Out of Scope] --> B[Rephrase as Cybersecurity Question]">>,
                  title |-> <<"Scope Guidance">>],
     steps |-> <<<<"1", ".", " ", "Share the suspicious email text/headers or a short log snippet to analyze", ".">>,
                 <<"2", ".", " ", "Tell me what environment you are in (email client, Windows domain, etc", ".",
                   ") so I can pick the right lab case", ".">>>>,
     sources |-> <<Source(Str(KbScope001), Str(<<"Evidence-Grounded Tutoring Scope">>), "1.0")>>,
     lab |-> None,
     practice |->
        [question |-> Str(<<"Which of the following is the best next step when a question is out of scope for the lab-based cybersecurity tutor", "?">>),
         hint |-> Str(<<"Think about what helps the tutor stay grounded in course evidence", ".">>),
         answer |-> Str(<<"Ask for relevant cybersecurity artifacts (email headers/logs) and re-scope the question", ".">>)],
     strict_evidence_used |-> TRUE,
     kb_coverage |-> "none"]

\* the same test in every mode
RefusalTakenAnyMode(r) == ~_is_in_scope(r.message)

\* req.strict_mode and (not _is_in_scope(req.message))
RefusalTaken(r) == r.strict_mode /\ ~_is_in_scope(r.message)

-----------------------------------------------------------------------------
(* gemini_client.py: rewrite_intent and the prompts of the three call sites *)

\* out.splitlines()[0]
FirstLine(s) ==
    IF \E i \in 1..Len(s) : s[i] = "\n"
    THEN SubSeq(s, 1, (CHOOSE i \in 1..Len(s) : s[i] = "\n" /\ \A j \in 1..(i - 1) : s[j] # "\n") - 1)
    ELSE s

\* the start of the prompt of rewrite_intent, up to the user message
RewritePromptHead(message, strict_mode) ==
    <<"You are a concise rewriter", ".", "\n",
      "Rewrite the user message into one short self-contained question", ".", "\n", "\n",
      IF strict_mode THEN "Strict mode is true. Do not add any new facts."
      ELSE "Strict mode is false.",
      "\n", "\n", "User message:", "\n">> \o message

\* the start of prompt1 when strict_mode is false
TutorPromptHeadLoose ==
    <<"Return ONLY valid JSON on ONE LINE", ".", " No markdown", ".", " No extra text", ".",
      "\n", "\n", "Prefer course snippets and artifacts", ".",
      " Label any extra knowledge as Extra context", ".", "\n", "\n", "Topic: phishing", "\n">>

\* the start of long_prompt
LongPromptHead == <<"Write a helpful, complete explanation", ".", "\n", "Constraints:", "\n">>

\* what rewrite_intent makes of the text out that _call_model returned
RewriteOut(raw, message) ==
    LET out == Strip(raw)
    IN IF out = <<>> \/ StartsWith(out, <<"[", "gemini_">>) THEN Strip(message)
       ELSE Strip(FirstLine(out))

-----------------------------------------------------------------------------
(* Inputs of _evidence_pool *)

\* longest retrieved_docs list
MaxDocs == 7

\* longest artifact list of a case
MaxArts == 3

\* longest highlight list
MaxHl == 12

IdD(i) == <<"d", DigitChar[i + 1]>>
IdA(i) == <<"a", DigitChar[i + 1]>>

Doc(id) == [t |-> "dict", id |-> id]
Artifact(artifact_id, id) == [t |-> "dict", artifact_id |-> artifact_id, id |-> id]
Case(case_id, artifacts) == [t |-> "dict", case_id |-> case_id, artifacts |-> artifacts]
LineHighlight(artifact_id, line) ==
    [t |-> "dict", artifact_id |-> artifact_id, line |-> line, span |-> None]
SpanHighlight(artifact_id, start, end) ==
    [t |-> "dict", artifact_id |-> artifact_id, line |-> None,
     span |-> [start |-> start, end |-> end]]

\* the lists are built by pattern, so that lists longer than the caps of the
\* code are among the inputs
DocPatterns == {"distinct", "repeat", "gaps", "shared"}

\* "shared": the first id is also an artifact id, the second is also the
\* reference to line 1 of artifact a1
DocsOfPattern(p, n) ==
    [i \in 1..n |->
        Doc(CASE p = "distinct" -> Str(IdD(i))
              [] p = "repeat" -> Str(IdD(((i - 1) % 2) + 1))
              [] p = "gaps" -> IF i % 2 = 0 THEN None
                               ELSE IF i % 3 = 0 THEN Str(<<>>) ELSE Str(IdD(i))
              [] OTHER -> IF i = 1 THEN Str(IdA(1))
                          ELSE IF i = 2 THEN Str(LineRef(IdA(1), 1)) ELSE Str(IdD(i)))]

DocsInputs == {DocsOfPattern(p, n) : p \in DocPatterns, n \in 0..MaxDocs}

ArtifactPatterns == {"ids", "fallback", "bad"}

ArtifactsOfPattern(p, n) ==
    [i \in 1..n |->
        CASE p = "ids" -> Artifact(Str(IdA(i)), None)
          [] p = "fallback" -> IF i % 2 = 1 THEN Artifact(None, Str(IdA(i)))
                               ELSE Artifact(Str(<<>>), Str(IdD(1)))
          [] OTHER -> IF i = 1 THEN Artifact(None, None)
                      ELSE IF i = 2 THEN Str(<<"x">>) ELSE Artifact(Str(IdA(1)), None)]

CaseInputs ==
    {None, Case(Str(<<"c">>), None)}
        \cup {Case(Str(<<"c">>), List(ArtifactsOfPattern(p, n))) :
                p \in ArtifactPatterns, n \in 0..MaxArts}

HighlightPatterns == {"lines", "mixed", "same", "bad"}

HighlightsOfPattern(p, n) ==
    [i \in 1..n |->
        CASE p = "lines" -> LineHighlight(Str(IdA(1)), IntV(i))
          [] p = "mixed" -> IF i % 2 = 1 THEN LineHighlight(Str(IdA(1)), IntV(i))
                            ELSE SpanHighlight(Str(IdA(1)), i, i + 3)
          [] p = "same" -> LineHighlight(Str(IdA(2)), IntV(1))
          [] OTHER -> IF i % 3 = 1 THEN LineHighlight(Str(IdA(1)), IntV(0))
                      ELSE IF i % 3 = 2 THEN LineHighlight(Str(<<>>), IntV(2))
                      ELSE Str(<<"x">>)]

HighlightsInputs == {HighlightsOfPattern(p, n) : p \in HighlightPatterns, n \in 0..MaxHl}

-----------------------------------------------------------------------------
(* Inputs of _ensure_text_has_citation and of the postprocessing *)

\* longest answer text
MaxText == 3

\* longest step list of a tutoring payload
MaxSteps == 2

TextAlphabet == {"a", " ", "[", "]"}

TextInputs == SeqsUpTo(TextAlphabet, MaxText)

EvidenceIdsInputs ==
    {<<>>, <<IdD(1)>>, <<IdD(1), IdA(1)>>, <<IdD(1), IdA(1), LineRef(IdA(1), 1)>>}

\* (retrieved_docs, case, highlights) with a pool of 0, 1, 2 and 3 ids
EvidenceSourceInputs ==
    {<<DocsOfPattern("distinct", n), Case(Str(<<"c">>), List(ArtifactsOfPattern("ids", m))),
       HighlightsOfPattern("lines", m)>> : n \in 0..1, m \in 0..1}

\* what a step or a practice may carry as evidence
EvidenceVals ==
    {None, List(<<Str(IdD(2))>>), List(<<Str(<<>>)>>), List(<<None, Str(IdA(2))>>),
     List(<<IntV(7)>>), Str(IdD(2))}

StepVals ==
    {Step(Str(<<"s">>), ev) : ev \in EvidenceVals} \cup {Step(None, None), Str(<<"x">>)}

PracticeVals == {Practice(Str(<<"q">>), ev) : ev \in EvidenceVals} \cup {None}

TutoringInputs ==
    {Tutoring(Str(txt), Str(txt), List(steps), practice) :
        txt \in {<<>>, <<"a", ".">>}, steps \in SeqsUpTo(StepVals, MaxSteps),
        practice \in PracticeVals}

-----------------------------------------------------------------------------
(* Texts of the generation service and inputs of generate_tutoring *)

\* longest answer value inside a generated JSON text
MaxAnswer == 2

AnswerAlphabet == {"a", ".", "[", "]", " "}

AnswerInputs == SeqsUpTo(AnswerAlphabet, MaxAnswer)

KeyFinalAnswer == <<Q, "final_answer", Q, ":">>

\* {"final_answer":"<answer>","steps":<steps>,"practice":<practice>}
JsonText(answer, steps, practice) ==
    <<"{">> \o KeyFinalAnswer \o <<Q>> \o answer \o <<Q, ",", Q, "steps", Q, ":", steps, ",",
      Q, "practice", Q, ":", practice, "}">>

\* complete JSON texts: every answer with well-formed steps and practice, and
\* one answer with every combination of steps and practice values
CompleteJsonTexts ==
    {JsonText(answer, "[step,step]", "{practice}") : answer \in AnswerInputs}
        \cup {JsonText(<<"a", ".">>, steps, practice) :
                steps \in {"null", "7", "[]", "[step,step]", "[step-no-evidence]", "[6 steps]",
                           "[step-empty-text]"},
                practice \in {"null", "7", "{practice}", "{practice-empty-ids}",
                              "{practice-no-question}", "{practice-blank-ids}"}}

\* JSON texts with fields missing, of another type, or wrapped in other text
PartialJsonTexts ==
    {<<"{">> \o KeyFinalAnswer \o <<Q>> \o answer \o <<Q, "}">> : answer \in AnswerInputs}
        \cup {<<"{", "}">>,
              <<"[]">>,
              <<"{">> \o KeyFinalAnswer \o <<"null", "}">>,
              <<"{">> \o KeyFinalAnswer \o <<"7", "}">>,
              <<"{", Q, "steps", Q, ":", "[step,step]", "}">>,
              <<"{", Q, "note", Q, ":", Q, "a", Q, "}">>,
              <<"~", "~", "~", "\n">> \o JsonText(<<"a">>, "[step,step]", "{practice}")
                    \o <<"\n", "~", "~", "~">>,
              <<"{", "'", "final_answer", "'", ":", "'", "a", "'", "}">>}

\* JSON texts cut off by the output limit
TruncatedJsonTexts ==
    {<<"{">> \o KeyFinalAnswer \o <<Q>> \o answer : answer \in AnswerInputs}
        \cup {<<"{">> \o KeyFinalAnswer \o <<Q>> \o answer \o <<Q, ",", Q, "steps", Q, ":">> :
                answer \in AnswerInputs}
        \cup {<<"{">> \o KeyFinalAnswer,
              <<"{", Q, "final_answer">>,
              <<"{">> \o KeyFinalAnswer \o <<Q, "a", "\n", "a">>,
              <<"{">> \o KeyFinalAnswer \o <<Q, "a", "\\", "n", "a">>}

\* f"[gemini_empty_text] promptFeedback={pf}"
EmptyTextMarker == <<"[", "gemini_", "empty_text", "]", " promptFeedback=None">>

\* f"[gemini_fallback_error] {str(e)}"
FallbackErrorMarker == <<"[", "gemini_", "fallback_error", "]", " 503 unavailable">>

\* f"[stubbed response] {prompt[:200]}"
StubText(prompt) == <<"[", "stubbed response", "]", " ">> \o prompt

\* the first 200 characters of prompt1: its first line, the grounding rule of
\* strict mode with its two bracketed ids, the topic line
TutorPromptHead ==
    <<"Return ONLY valid JSON on ONE LINE", ".", " No markdown", ".", " No extra text", ".",
      "\n", "\n", "Strict mode: every sentence must include evidence ids in brackets like ",
      "[", "kb_phish_001", "]", " or ", "[", "email_1001", "]", ".", "\n", "\n",
      "Topic: phishing", "\n">>

PlainTexts == {<<"a", " ", "a", ".">>, <<"a", " ", "[", "d", "1", "]", ".">>}

\* what _call_model may return for prompt1
RawInputs ==
    CompleteJsonTexts \cup PartialJsonTexts \cup TruncatedJsonTexts \cup PlainTexts
        \cup {EmptyTextMarker, FallbackErrorMarker, StubText(TutorPromptHead)}

\* what _call_model may return for long_prompt
LongInputs == {<<"a", " ", "a", ".">>, EmptyTextMarker}

TopicInputs == {"phishing", "lateral_movement", "unknown"}

\* (retrieved_docs, lab_artifacts) of a generate_tutoring call
GroundingInputs ==
    {<<DocsOfPattern(p, n), c>> :
        p \in {"distinct", "gaps"}, n \in 0..2,
        c \in {Case(Str(<<"none">>), List(<<>>)),
               Case(Str(<<"c">>), List(ArtifactsOfPattern("ids", 1))),
               Case(Str(<<"c">>), List(ArtifactsOfPattern("bad", 1)))}}

-----------------------------------------------------------------------------
(* Knowledge bases and queries *)

\* most documents of a knowledge base
MaxCorpus == 2

\* highest relevance score (scores are compared, never added)
MaxScore == 2

\* largest top_k
MaxTopK == 2

\* most retrieve calls of one process
MaxCalls == 2

KbTexts == {<<"s", "m", "b">>, <<"T", "h", "e", " ", "l", "o", "g", " ", "s", "m", "b">>}

\* the knowledge bases: none (file absent or empty), or documents k1, k2, ...
\* whose vocabulary is not empty
KbInputs ==
    {[i \in DOMAIN texts |-> KbItem(Str(<<"k", DigitChar[i + 1]>>), Str(<<"T">>), texts[i])] :
        texts \in SeqsUpTo(KbTexts, MaxCorpus)}

QueryInputs == {<<"s", "m", "b">>, <<"L", "o", "g", "?">>, <<" ">>}

\* the queries retrieve computes scores for
ScoredQueries == {q \in QueryInputs : Strip(q) # <<>>}

\* the score vectors (self.tfidf @ q_vec.T) may hold: a document scores above 0
\* exactly when it shares a term with the query
ScoreVectors(k, q) ==
    {v \in [1..Len(k) -> 0..MaxScore] :
        \A i \in 1..Len(k) : (v[i] > 0) <=> (Terms(q) \cap Terms(k[i].text) # {})}

IndexOrders(n) == {f \in [1..n -> 1..n] : \A i, j \in 1..n : f[i] = f[j] => i = j}

\* np.argsort(scores): an index order of ascending score; the order of equal
\* scores is not fixed by the default sort kind
ArgsortOrders(v) ==
    {ord \in IndexOrders(Len(v)) :
        \A a, b \in 1..Len(v) : a < b => v[ord[a]] <= v[ord[b]]}

\* a score vector for every scored query
RECURSIVE ScoreTables(_, _)
ScoreTables(k, qs) ==
    IF qs = {} THEN {<<>>}
    ELSE LET q == CHOOSE x \in qs : TRUE
         IN {(q :> v) @@ t : v \in ScoreVectors(k, q), t \in ScoreTables(k, qs \ {q})}

\* an argsort result for every score vector of vs: argsort is a function of
\* the array it sorts
RECURSIVE ArgsortTables(_)
ArgsortTables(vs) ==
    IF vs = {} THEN {<<>>}
    ELSE LET v == CHOOSE x \in vs : TRUE
         IN {(v :> ord) @@ t : ord \in ArgsortOrders(v), t \in ArgsortTables(vs \ {v})}

\* the score vectors retrieve may sort: those of the scored queries, and the
\* zero vector of every other query
UsedVectors(k, sc) == {sc[q] : q \in DOMAIN sc} \cup {[i \in 1..Len(k) |-> 0]}

-----------------------------------------------------------------------------
(* Requests, configurations and texts of the generation service *)

\* most /ask requests one process serves
MaxRequests == 1

\* most documents of the knowledge base of a process that serves /ask
MaxAskCorpus == 1

MessageInputs == QueryInputs \cup {<<"p", "o", "e", "m">>}

UiTopicInputs ==
    {None, Str(<<"L", "a", "t", "e", "r", "a", "l", "-", "M", "o", "v", "e", "m", "e", "n", "t", " ">>)}

ChatHistoryInputs == {<<>>, <<[role |-> "user", content |-> <<"h">>]>>}

OptionalArtifactsInputs == {None, List(ArtifactsOfPattern("ids", 1))}

RequestInputs ==
    [message : MessageInputs, strict_mode : BOOLEAN, ui_topic : UiTopicInputs,
     chat_history : ChatHistoryInputs, optional_artifacts : OptionalArtifactsInputs,
     user_id : {"anon"}]

\* GeminiClient(): with or without GEMINI_API_KEY, with or without a fallback model
LlmInputs ==
    {[api_key |-> k, fallback_model |-> f, last_usage |-> <<>>, last_model_used |-> "primary"] :
        k \in BOOLEAN, f \in BOOLEAN} \ {[api_key |-> FALSE, fallback_model |-> TRUE,
                                          last_usage |-> <<>>, last_model_used |-> "primary"]}

\* longest time in milliseconds a request takes up to its interaction row
MaxLatency == 1

\* int((time.time() - t0) * 1000)
LatencyInputs == 0..MaxLatency

\* the call sites of _call_model
GenSites == {"rewrite", "tutor_json", "tutor_long"}

\* the non-empty texts the generation service answers a site with
SiteTexts(site) ==
    IF site = "rewrite"
    THEN {<<"s", "m", "b">>, <<"L", "o", "g", "?", "\n", "s", "m", "b">>}
    ELSE IF site = "tutor_json"
    THEN {JsonText(<<"a", ".">>, "[step,step]", "{practice}"),
          <<"{">> \o KeyFinalAnswer \o <<Q, "a">>,
          <<"a", " ", "a", ".">>}
    ELSE {<<"a", " ", "a", ".">>}

\* what one attempt of _call_model_on ends with: an exception (transport or
\* HTTP error), a response without text, or a response with text
AttemptOutcomes(site) ==
    {[kind |-> "raise"], [kind |-> "empty"]} \cup {[kind |-> "text", text |-> t] : t \in SiteTexts(site)}

-----------------------------------------------------------------------------
(* Specification of the helper functions: each action applies one helper   *)
(* to arguments of the bounded input sets and records the application.     *)

NoCall == [fn |-> "none"]

\* a process with an absent knowledge base file, in which nothing was retrieved
NoLibrarian ==
    /\ kb = <<>>
    /\ scores = <<>>
    /\ order = <<>>
    /\ cache = <<>>
    /\ ret = <<>>

\* a configured client; GEMINI_API_KEY is not set
NoLlm == [api_key |-> FALSE, fallback_model |-> FALSE, last_usage |-> <<>>,
          last_model_used |-> "primary"]

\* an empty database, no session open
NoDb == [open |-> FALSE, users |-> {}, sessions |-> 0, interactions |-> <<>>]

NoRequest == [message |-> <<>>]

\* the local variables of ask before its first statement
NoLocals ==
    [topic_guess |-> <<>>, refused |-> FALSE, session |-> 0, attempt |-> 0, rewritten |-> <<>>,
     retrieved_docs |-> <<>>, selected_nodes |-> <<>>, case |-> None, highlights |-> <<>>,
     out |-> <<>>, raw1 |-> <<>>, tutoring |-> None, normalized |-> None, trace |-> {}, exc |-> "none"]

\* a process that serves no request
NoPipeline ==
    /\ pc = "idle"
    /\ req = NoRequest
    /\ llm = NoLlm
    /\ db = NoDb
    /\ loc = NoLocals
    /\ resp = NoResponse
    /\ served = 0

InitCall == call = NoCall /\ NoLibrarian /\ NoPipeline

CallEvidencePool ==
    /\ call = NoCall
    /\ UNCHANGED <<librarian, pipeline>>
    /\ \E docs \in DocsInputs, case \in CaseInputs, hls \in HighlightsInputs :
          call' = [fn |-> "_evidence_pool", retrieved_docs |-> docs, case |-> case,
                   highlights |-> hls, out |-> _evidence_pool(docs, case, hls)]

CallEnsureCitation ==
    /\ call = NoCall
    /\ UNCHANGED <<librarian, pipeline>>
    /\ \E text \in TextInputs, ids \in EvidenceIdsInputs :
          call' = [fn |-> "_ensure_text_has_citation", text |-> text, evidence_ids |-> ids,
                   out |-> _ensure_text_has_citation(text, ids)]

CallPostprocess ==
    /\ call = NoCall
    /\ UNCHANGED <<librarian, pipeline>>
    /\ \E tutoring \in TutoringInputs, src \in EvidenceSourceInputs :
          call' = [fn |-> "postprocess", tutoring |-> tutoring,
                   out |-> AskPostprocess(tutoring, src[1], src[2], src[3])]

CallGenerateTutoring ==
    /\ call = NoCall
    /\ UNCHANGED <<librarian, pipeline>>
    /\ \E raw1 \in RawInputs, long \in LongInputs, topic \in TopicInputs,
          g \in GroundingInputs :
          call' = [fn |-> "generate_tutoring", raw1 |-> raw1, long_answer |-> long,
                   topic |-> topic, retrieved_docs |-> g[1], lab_artifacts |-> g[2],
                   out |-> generate_tutoring(raw1, long, topic, g[1], g[2])]

InitRetrieve ==
    /\ call = NoCall
    /\ kb \in KbInputs
    /\ scores \in ScoreTables(kb, ScoredQueries)
    /\ order \in ArgsortTables(UsedVectors(kb, scores))
    /\ cache = <<>>
    /\ ret = <<>>
    /\ NoPipeline

\* a call of librarian.retrieve(rewritten_question, top_k)
Retrieve(rewritten_question, top_k) ==
    LET res == CachedRetrieve(cache, kb, scores, order, rewritten_question, top_k)
    IN /\ Len(ret) < MaxCalls
       /\ ret' = Append(ret, [q |-> rewritten_question, top_k |-> top_k, hit |-> res.hit,
                              outcome |-> res.outcome, docs |-> res.docs])
       /\ cache' = res.cache
       /\ UNCHANGED <<call, kb, scores, order, pipeline>>

\* the cache holds 1024 entries: calls with other queries push an entry out
CacheEvict ==
    /\ \E key \in DOMAIN cache :
          cache' = [x \in DOMAIN cache \ {key} |-> cache[x]]
    /\ UNCHANGED <<call, kb, scores, order, ret, pipeline>>

NextRetrieve ==
    \/ \E q \in QueryInputs, top_k \in 0..MaxTopK : Retrieve(q, top_k)
    \/ CacheEvict

SpecRetrieve == InitRetrieve /\ [][NextRetrieve]_vars

NextPool == CallEvidencePool

SpecPool == InitCall /\ [][NextPool]_vars

NextCite == CallEnsureCitation

SpecCite == InitCall /\ [][NextCite]_vars

NextPost == CallPostprocess

SpecPost == InitCall /\ [][NextPost]_vars

NextTutor == CallGenerateTutoring

SpecTutor == InitCall /\ [][NextTutor]_vars

-----------------------------------------------------------------------------
(* ontology_mapper.py: OntologyMapper *)

\* a concept node and a concept edge of the ontology file
ConceptNode(id, label, description, tags, topic) ==
    [t |-> "dict", id |-> id, label |-> label, description |-> description, tags |-> tags,
     topic |-> topic]

ConceptEdge(source, target) == [t |-> "dict", source |-> source, target |-> target]

\* " ".join(strs)
RECURSIVE JoinSpace(_)
JoinSpace(strs) ==
    IF strs = <<>> THEN <<>>
    ELSE IF Len(strs) = 1 THEN strs[1]
    ELSE strs[1] \o <<" ">> \o JoinSpace(Tail(strs))

\* s.split(): the maximal runs of characters that are no whitespace, from
\* position i on; cur is the run being read
RECURSIVE SplitFrom(_, _, _)
SplitFrom(s, i, cur) ==
    IF i > Len(s) THEN (IF cur = <<>> THEN <<>> ELSE <<cur>>)
    ELSE IF s[i] \in Whitespace
         THEN (IF cur = <<>> THEN <<>> ELSE <<cur>>) \o SplitFrom(s, i + 1, <<>>)
         ELSE SplitFrom(s, i + 1, Append(cur, s[i]))

Split(s) == SplitFrom(s, 1, <<>>)

\* line 27: the query and the quotes of the retrieved documents, joined by
\* blanks and lowercased
MapText(rewritten_question, retrieved_docs) ==
    Lower(JoinSpace(<<rewritten_question>> \o
                    [i \in 1..Len(retrieved_docs) |-> retrieved_docs[i].quote]))

\* any(tok in text for tok in s.split())
AnyTokenIn(s, text) == \E i \in 1..Len(Split(s)) : Contains(Split(s)[i], text)

\* lines 30-41: 2 when some token of the label is in the text, 1 when some
\* token of the description is, and 1 for every tag that is
NodeScore(n, text) ==
    (IF AnyTokenIn(Lower(n.label), text) THEN 2 ELSE 0)
    + (IF AnyTokenIn(Lower(n.description), text) THEN 1 ELSE 0)
    + Cardinality({i \in 1..Len(n.tags) : Contains(Lower(n.tags[i]), text)})

\* the dict scores of map: a later node overwrites the entry of an earlier
\* node with the same id
MapScores(nodes, text) ==
    [id \in {nodes[i].id : i \in 1..Len(nodes)} |->
        LET last == CHOOSE i \in 1..Len(nodes) :
                        /\ nodes[i].id = id
                        /\ \A j \in 1..Len(nodes) : nodes[j].id = id => j <= i
        IN NodeScore(nodes[last], text)]

\* x put into a list sorted by descending score, behind the elements that
\* score the same
RECURSIVE InsertByScore(_, _, _)
InsertByScore(sorted, x, sc) ==
    IF sorted = <<>> THEN <<x>>
    ELSE IF sc[Head(sorted).id] >= sc[x.id]
         THEN <<Head(sorted)>> \o InsertByScore(Tail(sorted), x, sc)
         ELSE <<x>> \o sorted

\* sorted(nodes, key=score, reverse=True): a stable sort, equal scores keep
\* their order
RECURSIVE SortedByScore(_, _)
SortedByScore(nodes, sc) ==
    IF nodes = <<>> THEN <<>>
    ELSE InsertByScore(SortedByScore(SubSeq(nodes, 1, Len(nodes) - 1), sc),
                       nodes[Len(nodes)], sc)

\* [:7] of line 45
MapNodeCap == 7

\* the same without the cap
SelectScoredNoCap(nodes, sc) ==
    SelectSeq(SortedByScore(nodes, sc), LAMBDA n : sc[n.id] > 0)

\* lines 44-45: the nodes with a score above 0, highest first, at most 7
SelectScored(nodes, sc) ==
    Take(SelectSeq(SortedByScore(nodes, sc), LAMBDA n : sc[n.id] > 0), MapNodeCap)

\* len(selected) >= 3 of line 51
MapFallbackCap == 3

\* the same with the topic lowercased like the text
TopicInTextLower(n, text) == NonEmptyStr(n.topic) /\ Contains(Lower(n.topic.s), text)

\* n.get("topic") and n["topic"] in text
TopicInText(n, text) == NonEmptyStr(n.topic) /\ Contains(n.topic.s, text)

\* lines 48-52: the loop over the nodes from node i on, which ends at the
\* third selected node
RECURSIVE TopicFallback(_, _, _, _)
TopicFallback(nodes, text, i, selected) ==
    IF i > Len(nodes) THEN selected
    ELSE IF TopicInText(nodes[i], text)
         THEN (IF Len(selected) + 1 >= MapFallbackCap THEN Append(selected, nodes[i])
               ELSE TopicFallback(nodes, text, i + 1, Append(selected, nodes[i])))
         ELSE TopicFallback(nodes, text, i + 1, selected)

\* the same with a test of the source only
SelectEdgesBySource(edges, selected) ==
    SelectSeq(edges, LAMBDA e : e.source \in {selected[i].id : i \in 1..Len(selected)})

\* lines 54-55: the edges between selected nodes
SelectEdges(edges, selected) ==
    LET selected_ids == {selected[i].id : i \in 1..Len(selected)}
    IN SelectSeq(edges, LAMBDA e : e.source \in selected_ids /\ e.target \in selected_ids)

\* OntologyMapper.map over the loaded nodes and edges
map(nodes, edges, rewritten_question, retrieved_docs) ==
    LET text == MapText(rewritten_question, retrieved_docs)
        sc == MapScores(nodes, text)
        scored == SelectScored(nodes, sc)
        selected == IF scored = <<>> THEN TopicFallback(nodes, text, 1, <<>>) ELSE scored
    IN [selected |-> selected, sel_edges |-> SelectEdges(edges, selected)]

-----------------------------------------------------------------------------
(* Ontologies and the arguments of map *)

\* most nodes of an ontology
MaxNodes == 8

IdN(i) == Str(<<"n">> \o Digits(i))

\* the kinds of node: the label, description, tags and topic of a node
NodeKinds ==
    [smb   |-> [label |-> <<"S", "m", "b", " ", "L", "o", "g">>, description |-> <<"p", "t", "h">>, tags |-> <<<<"s", "m", "b">>>>,
                topic |-> Str(<<"s", "m", "b">>)],
     pth   |-> [label |-> <<"P", "t", "h">>, description |-> <<>>, tags |-> <<<<"L", "O", "G">>>>,
                topic |-> Str(<<"p", "t", "h">>)],
     zed   |-> [label |-> <<"Z", "e", "d">>, description |-> <<>>, tags |-> <<>>, topic |-> Str(<<"z", "z">>)],
     upper |-> [label |-> <<"Z", "e", "d">>, description |-> <<>>, tags |-> <<>>, topic |-> Str(<<"Z", "Z">>)],
     plain |-> [label |-> <<"Z", "e", "d">>, description |-> <<>>, tags |-> <<>>, topic |-> None],
     blank |-> [label |-> <<"Z", "e", "d">>, description |-> <<>>, tags |-> <<>>, topic |-> Str(<<>>)]]

\* the orders in which the kinds repeat in an ontology
NodePatterns ==
    {<<"smb">>, <<"pth", "smb">>, <<"zed">>, <<"upper", "zed">>, <<"zed", "smb", "pth">>,
     <<"plain", "zed", "blank">>}

NodesOfPattern(p, n) ==
    [i \in 1..n |->
        LET kind == NodeKinds[p[((i - 1) % Len(p)) + 1]]
        IN ConceptNode(IdN(i), kind.label, kind.description, kind.tags, kind.topic)]

NodesInputs == {NodesOfPattern(p, n) : p \in NodePatterns, n \in 0..MaxNodes}

\* the edges of an ontology of n nodes: every pair of nodes, or a chain with
\* an edge to an id that is no node and an edge without source
EdgesInputs(n) ==
    {[k \in 1..(n * n) |-> ConceptEdge(IdN(((k - 1) \div n) + 1), IdN(((k - 1) % n) + 1))],
     [k \in 1..(n + 1) |->
        IF k < n THEN ConceptEdge(IdN(k), IdN(k + 1))
        ELSE IF k = n THEN ConceptEdge(IdN(n), Str(<<"g", "h", "o", "s", "t">>))
        ELSE ConceptEdge(None, IdN(1))]}

MapQueryInputs == {<<"S", "M", "B", " ", "l", "o", "g">>, <<"L", "o", "g", "?">>, <<"z", "z">>, <<>>}

MapDocsInputs ==
    {<<>>, <<RetrievedDoc(KbItem(Str(<<"k", "1">>), Str(<<"T">>), <<"P", "t", "h", " ", "Z", "Z">>))>>}

-----------------------------------------------------------------------------
(* Specification of OntologyMapper.map: each call maps a question and     *)
(* retrieved documents onto a loaded ontology; scores is the local dict   *)
(* of the call.                                                           *)

CallMap ==
    /\ call = NoCall
    /\ UNCHANGED <<librarian, pipeline>>
    /\ \E nodes \in NodesInputs, q \in MapQueryInputs, docs \in MapDocsInputs :
          \E edges \in EdgesInputs(Len(nodes)) :
             call' = [fn |-> "map", nodes |-> nodes, edges |-> edges,
                      rewritten_question |-> q, retrieved_docs |-> docs,
                      text |-> MapText(q, docs),
                      scores |-> MapScores(nodes, MapText(q, docs)),
                      out |-> map(nodes, edges, q, docs)]

NextMap == CallMap

SpecMap == InitCall /\ [][NextMap]_vars

-----------------------------------------------------------------------------
(* lab_coach.py: LabCoach *)

\* a case of the cases file
LoadedCase(case_id, topic, artifacts) ==
    [t |-> "dict", case_id |-> case_id, topic |-> topic, artifacts |-> artifacts]

\* an artifact with a text; a key the artifact lacks is Missing
TextArtifact(artifact_id, id, text) ==
    [t |-> "dict", artifact_id |-> artifact_id, id |-> id, text |-> text]

\* {"case_id": "none", "artifacts": []}
EmptyCase == Case(Str(<<"n", "o", "n", "e">>), List(<<>>))

\* next((c for c in self.cases if c.get("topic") == topic), None), from case
\* i on
RECURSIVE FirstCaseOfTopic(_, _, _)
FirstCaseOfTopic(cases, topic, i) ==
    IF i > Len(cases) THEN None
    ELSE IF Get(cases[i].topic) = Str(topic) THEN cases[i]
    ELSE FirstCaseOfTopic(cases, topic, i + 1)

\* the same without the test of the topic: always the first loaded case
SelectCaseFirst(cases, optional_artifacts, topic) ==
    IF Truthy(optional_artifacts) THEN Case(Str(<<"p", "r", "o", "v", "i", "d", "e", "d">>), optional_artifacts)
    ELSE IF cases # <<>> THEN cases[1] ELSE EmptyCase

\* lines 19-26: the case select_and_highlight works on
SelectCase(cases, optional_artifacts, topic) ==
    IF Truthy(optional_artifacts) THEN Case(Str(<<"p", "r", "o", "v", "i", "d", "e", "d">>), optional_artifacts)
    ELSE LET case == FirstCaseOfTopic(cases, topic, 1)
         IN IF case # None THEN case
            ELSE IF cases # <<>> THEN cases[1] ELSE EmptyCase

\* the line boundaries of str.splitlines() met in the artifacts
LineBreaks == {"\n", "\r"}

\* the places where a line boundary of s starts: a line break that is not
\* the "\n" of a "\r\n"
BoundaryStarts(s) ==
    {i \in 1..Len(s) : s[i] \in LineBreaks /\ ~(s[i] = "\n" /\ i > 1 /\ s[i - 1] = "\r")}

\* the last place of the boundary that starts at place i
BoundaryEnd(s, i) == IF s[i] = "\r" /\ i < Len(s) /\ s[i + 1] = "\n" THEN i + 1 ELSE i

\* s.splitlines(): the text before each boundary, and the text behind the
\* last one when there is some
SplitLines(s) ==
    LET starts == BoundaryStarts(s)
        nth(k) == CHOOSE i \in starts : Cardinality({j \in starts : j < i}) = k - 1
        from(k) == IF k = 1 THEN 1 ELSE BoundaryEnd(s, nth(k - 1)) + 1
        n == Cardinality(starts)
        closed == [k \in 1..n |-> SubSeq(s, from(k), nth(k) - 1)]
    IN IF from(n + 1) <= Len(s) THEN Append(closed, SubSeq(s, from(n + 1), Len(s)))
       ELSE closed

\* art.get("text", "") or ""
RawText(art) ==
    LET text == GetOr(art.text, Str(<<>>))
    IN IF Truthy(text) THEN text.s ELSE <<>>

\* art.get("artifact_id", art.get("id", "artifact-unknown"))
ArtId(art) == GetOr(art.artifact_id, GetOr(art.id, Str(<<"a", "r", "t", "i", "f", "a", "c", "t", "-", "u", "n", "k", "n", "o", "w", "n">>)))

\* node.get("tags", []) or []: a node without tags is a node with the empty
\* list of tags
NodeTags(node) == node.tags

\* f"Matched concept tag '{tag}'."
Reason(tag) == <<"Matched concept tag '">> \o tag \o <<"'.">>

\* the highlight of a line (lines 53-61) and of a span (lines 69-76)
LabLineHighlight(art_id, line, concept_id, tag, line_text) ==
    [t |-> "dict", artifact_id |-> art_id, line |-> IntV(line), span |-> None,
     concept_id |-> concept_id, reason |-> Str(Reason(tag)), line_text |-> Str(line_text)]

LabSpanHighlight(art_id, start, end, concept_id, excerpt) ==
    [t |-> "dict", artifact_id |-> art_id, line |-> None,
     span |-> [start |-> start, end |-> end],
     concept_id |-> concept_id, excerpt |-> Str(excerpt)]

\* the same for lines that start with the tag only
LineHighlightsAtStart(art, node, tag) ==
    LET lines == SplitLines(RawText(art))
        hit == {i \in 1..Len(lines) : StartsWith(Lower(lines[i]), Lower(tag))}
    IN [k \in 1..Cardinality(hit) |->
           LET i == CHOOSE x \in hit : Cardinality({y \in hit : y < x}) = k - 1
           IN LabLineHighlight(ArtId(art), i, node.id, tag, lines[i])]

\* lines 51-61: a highlight for every line that holds the tag, in line order
LineHighlights(art, node, tag) ==
    LET lines == SplitLines(RawText(art))
        hit == {i \in 1..Len(lines) : Contains(Lower(tag), Lower(lines[i]))}
    IN [k \in 1..Cardinality(hit) |->
           LET i == CHOOSE x \in hit : Cardinality({y \in hit : y < x}) = k - 1
           IN LabLineHighlight(ArtId(art), i, node.id, tag, lines[i])]

\* the characters of the excerpt before and behind the tag
ExcerptPad == 30

\* the same with the span of the last occurrence
SpanHighlightsLast(art, node, tag) ==
    LET raw_text == RawText(art)
        tag_l == Lower(tag)
        at == {i \in 0..(Len(raw_text) - Len(tag_l)) :
                  SubSeq(Lower(raw_text), i + 1, i + Len(tag_l)) = tag_l}
        idx == CHOOSE i \in at : \A j \in at : j <= i
    IN IF at = {} THEN <<>>
       ELSE <<LabSpanHighlight(ArtId(art), idx, idx + Len(tag_l), node.id,
                               SubSeq(raw_text, Max(0, idx - ExcerptPad) + 1,
                                      Min(Len(raw_text), idx + Len(tag_l) + ExcerptPad)))>>

\* lines 64-76: one highlight for the first place of the tag in the whole
\* text; idx counts from 0 as in Python
SpanHighlights(art, node, tag) ==
    LET raw_text == RawText(art)
        full_lower == Lower(raw_text)
        tag_l == Lower(tag)
        idx == FindSub(full_lower, tag_l, 1) - 1
    IN IF ~Contains(tag_l, full_lower) \/ idx < 0 THEN <<>>
       ELSE <<LabSpanHighlight(ArtId(art), idx, idx + Len(tag_l), node.id,
                               SubSeq(raw_text, Max(0, idx - ExcerptPad) + 1,
                                      Min(Len(raw_text), idx + Len(tag_l) + ExcerptPad)))>>

\* lines 45-76: the highlights of one tag; an empty tag is skipped
TagHighlights(art, node, tag) ==
    IF Lower(tag) = <<>> THEN <<>>
    ELSE LineHighlights(art, node, tag) \o SpanHighlights(art, node, tag)

\* the loop over the tags of a node, from tag k on
RECURSIVE NodeHighlights(_, _, _)
NodeHighlights(art, node, k) ==
    IF k > Len(NodeTags(node)) THEN <<>>
    ELSE TagHighlights(art, node, NodeTags(node)[k]) \o NodeHighlights(art, node, k + 1)

\* the loop over the selected nodes, from node j on
RECURSIVE ArtifactHighlights(_, _, _)
ArtifactHighlights(art, selected_nodes, j) ==
    IF j > Len(selected_nodes) THEN <<>>
    ELSE NodeHighlights(art, selected_nodes[j], 1)
             \o ArtifactHighlights(art, selected_nodes, j + 1)

\* the loop over the artifacts of the case, from artifact i on
RECURSIVE CaseHighlights(_, _, _)
CaseHighlights(artifacts, selected_nodes, i) ==
    IF i > Len(artifacts) THEN <<>>
    ELSE ArtifactHighlights(artifacts[i], selected_nodes, 1)
             \o CaseHighlights(artifacts, selected_nodes, i + 1)

\* LabCoach.select_and_highlight over the loaded cases
select_and_highlight(cases, optional_artifacts, topic, selected_nodes) ==
    LET case == SelectCase(cases, optional_artifacts, topic)
        artifacts == GetOr(case.artifacts, List(<<>>)).xs
    IN [case |-> case, highlights |-> CaseHighlights(artifacts, selected_nodes, 1)]
-----------------------------------------------------------------------------
(* Cases, artifacts and selected nodes of select_and_highlight *)

\* most artifacts of a case or of a request
MaxLabArts == 2

\* most selected nodes
MaxSelected == 2

\* a log of three lines, the first ended by "\r\n"; and one line of 67
\* characters with the tag in the middle
LogText == <<"S", "M", "B", " ", "o", "p", "e", "n", "\r", "\n", "n", "o", "\n", "s", "m", "b", " ", "s", "m", "b">>
LongText == <<"x", "x", "x", "x", "x", "x", "x", "x", "x", "x", "x", "x", "x", "x", "x", "x", "x", "x", "x", "x", "x", "x", "x", "x", "x", "x", "x", "x", "x", "x", "x", "x", "S", "m", "b", "y", "y", "y", "y", "y", "y", "y", "y", "y", "y", "y", "y", "y", "y", "y", "y", "y", "y", "y", "y", "y", "y", "y", "y", "y", "y", "y", "y", "y", "y", "y", "y">>

\* the kinds of artifact: the text, and the key that holds the id
ArtifactKinds ==
    [log    |-> [text |-> Str(LogText), key |-> "artifact_id"],
     long   |-> [text |-> Str(LongText), key |-> "id"],
     null   |-> [text |-> None, key |-> "none"],
     absent |-> [text |-> Missing, key |-> "artifact_id"]]

LabArtifactPatterns == {<<"log">>, <<"long", "log">>, <<"null", "log", "absent">>}

LabArtifactsOfPattern(p, n) ==
    [i \in 1..n |->
        LET kind == ArtifactKinds[p[((i - 1) % Len(p)) + 1]]
        IN TextArtifact(IF kind.key = "artifact_id" THEN Str(IdA(i)) ELSE Missing,
                        IF kind.key = "id" THEN Str(IdA(i)) ELSE Missing,
                        kind.text)]

LabArtifactsInputs ==
    {LabArtifactsOfPattern(p, n) : p \in LabArtifactPatterns, n \in 0..MaxLabArts}

\* optional_artifacts of a request: null, or a list
LabOptionalInputs == {None} \cup {List(arts) : arts \in LabArtifactsInputs}

\* the topics of a request
LabTopicInputs == {TopicPhishing, TopicLateralMovement}

\* the loaded cases: none (file absent), one case of another topic, cases of
\* which the second and third have the topic phishing, and a case without
\* topic and artifacts
LabCasesInputs ==
    {<<>>,
     <<LoadedCase(Str(<<"c", "1">>), Str(TopicDataExfiltration),
                  List(LabArtifactsOfPattern(<<"log">>, 1)))>>,
     <<LoadedCase(Str(<<"c", "1">>), Str(TopicLateralMovement),
                  List(LabArtifactsOfPattern(<<"log">>, 1))),
       LoadedCase(Str(<<"c", "2">>), Str(TopicPhishing),
                  List(LabArtifactsOfPattern(<<"long", "log">>, 2))),
       LoadedCase(Str(<<"c", "3">>), Str(TopicPhishing), List(<<>>))>>,
     <<LoadedCase(Str(<<"c", "1">>), Missing, Missing)>>}

\* the tags of the kinds of selected node: one tag; a tag in capitals, an
\* empty tag and a tag no text holds; a tag with a line break in it; no tags;
\* and two tags of the same line
TagKinds ==
    [smb   |-> <<<<"s", "m", "b">>>>,
     mixed |-> <<<<"S", "M", "B">>, <<>>, <<"z", "z">>>>,
     brk   |-> <<<<"n", "o", "\n", "s", "m", "b">>>>,
     none  |-> <<>>,
     both  |-> <<<<"o", "p", "e", "n">>, <<"s", "m", "b">>>>]

SelectedPatterns ==
    {<<"smb">>, <<"mixed", "smb">>, <<"brk">>, <<"none", "both">>, <<"both", "brk">>}

SelectedOfPattern(p, n) ==
    [i \in 1..n |->
        ConceptNode(IdN(i), <<"L">>, <<>>, TagKinds[p[((i - 1) % Len(p)) + 1]], None)]

SelectedInputs == {SelectedOfPattern(p, n) : p \in SelectedPatterns, n \in 0..MaxSelected}

-----------------------------------------------------------------------------
(* Specification of LabCoach.select_and_highlight: each call selects the  *)
(* case and scans its artifacts for the tags of the selected nodes.       *)

CallSelectAndHighlight ==
    /\ call = NoCall
    /\ UNCHANGED <<librarian, pipeline>>
    /\ \E cases \in LabCasesInputs, arts \in LabOptionalInputs, topic \in LabTopicInputs,
          nodes \in SelectedInputs :
          call' = [fn |-> "select_and_highlight", cases |-> cases,
                   optional_artifacts |-> arts, topic |-> topic, selected_nodes |-> nodes,
                   out |-> select_and_highlight(cases, arts, topic, nodes)]

NextLab == CallSelectAndHighlight

SpecLab == InitCall /\ [][NextLab]_vars

-----------------------------------------------------------------------------
(* api.py: the builders of the response body *)

UpperChar(c) ==
    IF \E i \in 1..26 : LowerChars[i] = c
    THEN UpperChars[CHOOSE i \in 1..26 : LowerChars[i] = c]
    ELSE c

IsLetter(c) == \E i \in 1..26 : LowerChars[i] = c \/ UpperChars[i] = c

\* s.title(): a letter is upper case after a character that is no letter,
\* lower case after a letter
Title(s) ==
    [i \in 1..Len(s) |->
        IF i > 1 /\ IsLetter(s[i - 1]) THEN LowerChar(s[i]) ELSE UpperChar(s[i])]

\* "\n".join(lines)
RECURSIVE JoinLines(_)
JoinLines(lines) ==
    IF lines = <<>> THEN <<>>
    ELSE IF Len(lines) = 1 THEN lines[1]
    ELSE lines[1] \o <<"\n">> \o JoinLines(Tail(lines))

\* node_ids.get(id): the name N{i} of the last node with this id, None
\* when no node has it
NodeName(nodes, id) ==
    IF \E i \in 1..Len(nodes) : nodes[i].id = id
    THEN Str(<<"N">> \o Digits((CHOOSE i \in 1..Len(nodes) :
                                    /\ nodes[i].id = id
                                    /\ \A j \in (i + 1)..Len(nodes) : nodes[j].id # id) - 1))
    ELSE None

\* f"    {nid}[\"{label}\"]"
NodeLine(nodes, i) ==
    <<"    ", "N">> \o Digits(i - 1) \o <<"[", Q>>
        \o (IF nodes[i].label # <<>> THEN nodes[i].label ELSE PyStr(nodes[i].id))
        \o <<Q, "]">>

\* the edges both ends of which are nodes of the diagram
DrawnEdges(nodes, edges) ==
    SelectSeq(edges, LAMBDA e : /\ Truthy(NodeName(nodes, e.source))
                                /\ Truthy(NodeName(nodes, e.target)))

\* f"    {src} -->|{rel}| {tgt}", the edges of the ontology have no relation
EdgeLine(nodes, e) ==
    <<"    ">> \o NodeName(nodes, e.source).s \o <<" ", "-->", "|", "|", " ">>
        \o NodeName(nodes, e.target).s

_render_mermaid(nodes, edges) ==
    IF nodes = <<>> THEN <<>>
    ELSE LET drawn == DrawnEdges(nodes, edges)
         IN JoinLines(<<<<"graph TD">>>>
                      \o [i \in 1..Len(nodes) |-> NodeLine(nodes, i)]
                      \o [k \in 1..Len(drawn) |-> EdgeLine(nodes, drawn[k])])

TopicExfiltration == <<"e", "x", "f", "i", "l", "t", "r", "a", "t", "i", "o", "n">>

\* the values of the dict fallback of _build_diagram
DiagramPhishing ==
    <<"graph TD\nA[Attacker sends fake email] --> B[User clicks link]\nB --> C[Credentials stolen]">>
DiagramLateralMovement ==
    <<"graph TD\nA[Initial compromise] --> B[Steal credentials]\nB --> C[Move to another host]">>
DiagramPrivilegeEscalation ==
    <<"graph TD\nA[Low-priv access] --> B[Exploit vulnerability]\nB --> C[Admin access]">>
DiagramExfiltration ==
    <<"graph TD\nA[Data discovered] --> B[Compress/encrypt] --> C[Transfer out]">>

\* the default of fallback.get
DiagramGeneric == <<"graph TD\nA[Question] --> B[Explanation]\nB --> C[Sources]">>

\* {...}.get(topic, "graph TD\nA[Question] ...")
FallbackDiagram(topic) ==
    IF topic = TopicPhishing THEN DiagramPhishing
    ELSE IF topic = TopicLateralMovement THEN DiagramLateralMovement
    ELSE IF topic = TopicPrivilegeEscalation THEN DiagramPrivilegeEscalation
    ELSE IF topic = TopicExfiltration THEN DiagramExfiltration
    ELSE DiagramGeneric

\* the diagram of the response: type, code and title
Diagram(type, code, title) == [type |-> type, code |-> code, title |-> title]

_build_diagram(nodes, edges, topic) ==
    LET mermaid == _render_mermaid(nodes, edges)
    IN IF mermaid # <<>> THEN Diagram("mermaid", mermaid, Title(topic) \o <<" Flow">>)
       ELSE Diagram("mermaid", FallbackDiagram(topic), Title(topic) \o <<" Overview">>)

\* topic_guess if topic_guess != "unknown" else "general"
ResponseTopic(topic_guess) == IF topic_guess # TopicUnknown THEN topic_guess ELSE TopicGeneral

\* tutor_steps[:8]
StepsCap == 8

\* the steps of a response without a step that has text
DefaultSteps ==
    <<<<"1", ".", " ", "Understand the key concepts", ".">>,
      <<"2", ".", " ", "Review the diagram", ".">>,
      <<"3", ".", " ", "Check the sources for details", ".">>>>

\* enumerate(tutor_steps[:8], start=1) numbers the steps before the ones
\* without text are passed over
_build_steps(tutor_steps) ==
    LET capped == Take(tutor_steps, StepsCap)
        numbered == [i \in 1..Len(capped) |-> [i |-> i, s |-> capped[i]]]
        kept == SelectSeq(numbered, LAMBDA x : Truthy(x.s.step))
    IN IF kept = <<>> THEN DefaultSteps
       ELSE [j \in 1..Len(kept) |-> Digits(kept[j].i) \o <<".", " ">> \o PyStr(kept[j].s.step)]

\* s.split(c): the pieces of s between the occurrences of the character c,
\* from position i on; cur is the piece being read
RECURSIVE SplitOn(_, _, _, _)
SplitOn(s, c, i, cur) ==
    IF i > Len(s) THEN <<cur>>
    ELSE IF s[i] = c THEN <<cur>> \o SplitOn(s, c, i + 1, <<>>)
         ELSE SplitOn(s, c, i + 1, Append(cur, s[i]))

\* sep.join(strs)
RECURSIVE JoinWith(_, _)
JoinWith(strs, sep) ==
    IF strs = <<>> THEN <<>>
    ELSE IF Len(strs) = 1 THEN strs[1]
    ELSE strs[1] \o sep \o JoinWith(Tail(strs), sep)

_generate_title(message, topic) ==
    LET message_lower == Lower(message)
    IN IF Contains(<<"w", "h", "a", "t", " ", "i", "s">>, message_lower)
       THEN <<"What is ">> \o Title(topic) \o <<"?">>
       ELSE IF \/ Contains(<<"h", "o", "w", " ", "d", "o", "e", "s">>, message_lower)
               \/ Contains(<<"h", "o", "w", " ", "d", "o">>, message_lower)
            THEN <<"How ">> \o Title(topic) \o <<" Works">>
       ELSE IF Contains(<<"w", "h", "y">>, message_lower)
            THEN <<"Why ">> \o Title(topic) \o <<" Matters">>
       ELSE Title(topic) \o <<" Overview">>

\* [s.strip() for s in final_answer.split('.') if s.strip()]
Sentences(final_answer) ==
    LET pieces == SplitOn(final_answer, ".", 1, <<>>)
    IN SelectSeq([k \in 1..Len(pieces) |-> Strip(pieces[k])], LAMBDA p : p # <<>>)

\* sentences[:3]
SummaryCap == 3

_generate_summary(final_answer, retrieved_docs, strict_mode) ==
    LET sentences == Take(Sentences(final_answer), SummaryCap)
        summary_parts ==
            IF sentences # <<>> THEN sentences
            ELSE IF strict_mode /\ retrieved_docs = <<>>
                 THEN <<<<"Course materials did not cover this topic", ".">>,
                        <<"I can provide a general explanation, but it is not from the course", ".">>>>
                 ELSE <<<<"Here is a beginner-friendly explanation", ".">>,
                        <<"More details are available in the sources below", ".">>>>
    IN JoinWith(summary_parts, <<".", " ">>) \o <<".">>

\* the highlights of the lab object: the ones with a line and an artifact id
LabHighlights(highlights) ==
    LET lines == SelectSeq(highlights,
                           LAMBDA h : IsDict(h) /\ h.line # None /\ h.artifact_id # None)
    IN [k \in 1..Len(lines) |-> [start_line |-> lines[k].line, end_line |-> lines[k].line]]

\* first_art.get("artifact_id", "unknown.txt"); the artifacts of a request
\* carry an artifact_id (possibly null) and no text
_build_lab(topic, case, highlights, retrieved_docs) ==
    IF topic \notin {TopicPhishing, TopicLateralMovement} THEN None
    ELSE IF ~Truthy(case) \/ ~IsDict(case) THEN None
    ELSE LET arts == PyOr(case.artifacts, List(<<>>))
         IN IF ~Truthy(arts) THEN None
            ELSE [t |-> "dict", enabled |-> TRUE, case_file |-> arts.xs[1].artifact_id,
                  artifact_text |-> <<>>, highlights |-> LabHighlights(highlights),
                  next_steps |-> IF topic = TopicPhishing THEN "Identify spoofed sender"
                                 ELSE "Identify compromised account"]

\* practice_obj, lines 522-527: the normalized practice has a question and
\* evidence_ids, neither hint nor answer
PracticeObj(practice_raw) ==
    [question |-> practice_raw.question,
     hint |-> Str(<<"Think about the safest first action that preserves evidence and reduces risk", ".">>),
     answer |-> Str(<<>>)]

\* lines 499-540: the body ask returns on the normal path
ResponseBody(normalized, retrieved_docs, highlights) ==
    [topic |-> ResponseTopic(loc.topic_guess),
     title |-> _generate_title(req.message, ResponseTopic(loc.topic_guess)),
     summary |-> _generate_summary(normalized.tutor.final_answer_text, retrieved_docs,
                                   req.strict_mode),
     diagram |-> _build_diagram(loc.selected_nodes, <<>>, ResponseTopic(loc.topic_guess)),
     steps |-> _build_steps(normalized.tutor.steps),
     sources |-> _build_sources(retrieved_docs, req.strict_mode),
     lab |-> _build_lab(ResponseTopic(loc.topic_guess), loc.case, highlights, retrieved_docs),
     practice |-> PracticeObj(normalized.practice),
     strict_evidence_used |-> req.strict_mode,
     kb_coverage |-> _compute_kb_coverage(retrieved_docs, req.strict_mode),
     status |-> 200]

-----------------------------------------------------------------------------
(* The arguments of the builders *)

\* longest normalized step list
MaxStepList == 9

\* the step texts that repeat in a normalized step list
StepTextPatterns ==
    {<<Str(<<"a">>)>>, <<Str(<<>>)>>, <<Str(<<>>), Str(<<"a">>)>>,
     <<Str(<<"a">>), Str(<<>>), Str(<<"b">>)>>}

NormalizedStepsOfPattern(p, n) ==
    [i \in 1..n |-> [step |-> p[((i - 1) % Len(p)) + 1], evidence |-> List(<<Str(KbScope001)>>)]]

NormalizedStepsInputs ==
    {NormalizedStepsOfPattern(p, n) : p \in StepTextPatterns, n \in 0..MaxStepList}

\* most nodes ontology.map selected for a diagram
MaxDiagramNodes == 2

DiagramNodesInputs == {NodesOfPattern(p, n) : p \in NodePatterns, n \in 0..MaxDiagramNodes}

\* messages of every topic detect_topic knows, and of none
DiagramMessageInputs ==
    {<<"p", "h", "i", "s", "h">>, <<"s", "m", "b">>, <<"p", "r", "i", "v", "e", "s", "c">>,
     <<"e", "x", "f", "i", "l">>, <<"p", "o", "e", "m">>}

DiagramUiTopicInputs == UiTopicInputs \cup {Str(TopicExfiltration)}

-----------------------------------------------------------------------------
(* Specification of the builders of the response body: each action applies *)
(* one builder as lines 499-516 of ask apply it.                           *)

CallComputeKbCoverage ==
    /\ call = NoCall
    /\ UNCHANGED <<librarian, pipeline>>
    /\ \E docs \in DocsInputs, strict_mode \in BOOLEAN :
          call' = [fn |-> "_compute_kb_coverage", retrieved_docs |-> docs,
                   strict_mode |-> strict_mode,
                   out |-> _compute_kb_coverage(docs, strict_mode)]

\* lines 499 and 507, after detect_topic at line 366
CallBuildDiagram ==
    /\ call = NoCall
    /\ UNCHANGED <<librarian, pipeline>>
    /\ \E message \in DiagramMessageInputs, ui_topic \in DiagramUiTopicInputs,
          nodes \in DiagramNodesInputs :
          \E edges \in EdgesInputs(Len(nodes)) :
             LET topic_guess == detect_topic(message, ui_topic)
             IN call' = [fn |-> "_build_diagram", message |-> message, ui_topic |-> ui_topic,
                         topic_guess |-> topic_guess, nodes |-> nodes, edges |-> edges,
                         out |-> _build_diagram(nodes, edges, ResponseTopic(topic_guess))]

CallBuildSteps ==
    /\ call = NoCall
    /\ UNCHANGED <<librarian, pipeline>>
    /\ \E steps \in NormalizedStepsInputs :
          call' = [fn |-> "_build_steps", tutor_steps |-> steps, out |-> _build_steps(steps)]

NextBuild == CallComputeKbCoverage \/ CallBuildDiagram \/ CallBuildSteps

SpecBuild == InitCall /\ [][NextBuild]_vars

-----------------------------------------------------------------------------
(* Specification of /ask: one process with its singletons llm and librarian *)
(* and its database; every action is one step of ask between two calls of   *)
(* a collaborator.                                                          *)

\* top_k of the retrieve call of ask
AskTopK == 5

Init ==
    /\ call = NoCall
    /\ kb \in {k \in KbInputs : Len(k) <= MaxAskCorpus}
    /\ scores \in ScoreTables(kb, ScoredQueries)
    /\ order \in ArgsortTables(UsedVectors(kb, scores))
    /\ cache = <<>>
    /\ ret = <<>>
    /\ pc = "idle"
    /\ req = NoRequest
    /\ llm \in LlmInputs
    /\ db = NoDb
    /\ loc = NoLocals
    /\ resp = NoResponse
    /\ served = 0

\* an exception leaves the try block for the except clause
Raise(cause, l) ==
    /\ pc' = "except"
    /\ loc' = [l EXCEPT !.exc = cause]

\* the collaborator fn was called
Called(fn) == [loc EXCEPT !.trace = @ \cup {fn}]

\* ask is entered: init_db() and get_db_session()
Ask(r) ==
    /\ pc = "idle"
    /\ served < MaxRequests
    /\ pc' = "create_user"
    /\ req' = r
    /\ db' = [db EXCEPT !.open = TRUE]
    /\ loc' = NoLocals
    /\ resp' = NoResponse
    /\ UNCHANGED <<call, librarian, llm, served>>

\* create_user_if_missing(db, req.user_id): the user row is committed at once
CreateUser ==
    /\ pc = "create_user"
    /\ \E ok \in BOOLEAN :
          IF ok
          THEN /\ db' = [db EXCEPT !.users = @ \cup {req.user_id}]
               /\ pc' = "start_session"
               /\ loc' = loc
          ELSE /\ Raise("persistence", loc)
               /\ db' = db
    /\ UNCHANGED <<call, librarian, req, llm, resp, served>>

\* start_or_get_session_for_user(db, req.user_id): a new session row is
\* committed when the user has none or the last one is older than the timeout
StartSession ==
    /\ pc = "start_session"
    /\ \E ok \in BOOLEAN, expired \in BOOLEAN :
          IF ok
          THEN LET n == IF db.sessions = 0 \/ expired THEN db.sessions + 1 ELSE db.sessions
               IN /\ db' = [db EXCEPT !.sessions = n]
                  /\ loc' = [loc EXCEPT !.session = n]
                  /\ pc' = "scope"
          ELSE /\ Raise("persistence", loc)
               /\ db' = db
    /\ UNCHANGED <<call, librarian, req, llm, resp, served>>

\* lines 366-418: detect_topic, then the refusal of an out-of-scope message in
\* strict mode
ScopeCheck ==
    /\ pc = "scope"
    /\ LET l == [loc EXCEPT !.topic_guess = detect_topic(req.message, req.ui_topic)]
       IN IF RefusalTaken(req)
          THEN /\ loc' = [l EXCEPT !.refused = TRUE]
               /\ resp' = RefusalResponse
               /\ pc' = "finally"
          ELSE /\ loc' = [l EXCEPT !.attempt = 1]
               /\ resp' = resp
               /\ pc' = "rewrite"
    /\ UNCHANGED <<call, librarian, req, llm, db, served>>

\* the method of llm that calls _call_model at a site
SiteFn(site) == IF site = "rewrite" THEN "rewrite_intent" ELSE "generate_tutoring"

\* prompt[:200] at a site
PromptHead(site) ==
    IF site = "rewrite" THEN RewritePromptHead(req.message, req.strict_mode)
    ELSE IF site = "tutor_json"
    THEN (IF req.strict_mode THEN TutorPromptHead ELSE TutorPromptHeadLoose)
    ELSE LongPromptHead

\* _call_model returns text to the method that called it
GenReturn(text) ==
    /\ pc' = pc
    /\ loc' = [Called(SiteFn(pc)) EXCEPT !.attempt = 0, !.out = text]

\* _call_model_on returned data: _last_usage and _last_model_used are set
Used(model) == [llm EXCEPT !.last_usage = <<pc, loc.attempt>>, !.last_model_used = model]

\* _call_model without api_key: the stubbed response
GenStub ==
    /\ pc \in GenSites
    /\ ~llm.api_key
    /\ loc.attempt = 1
    /\ GenReturn(StubText(PromptHead(pc)))
    /\ UNCHANGED <<call, librarian, req, llm, db, resp, served>>

\* attempt 1 (lines 139-144): the primary model; an exception is not caught
GenAttempt1 ==
    /\ pc \in GenSites
    /\ llm.api_key
    /\ loc.attempt = 1
    /\ \E o \in AttemptOutcomes(pc) :
          CASE o.kind = "raise" ->
                  /\ Raise("generation", Called(SiteFn(pc)))
                  /\ llm' = llm
            [] o.kind = "empty" ->
                  /\ loc' = [Called(SiteFn(pc)) EXCEPT !.attempt = 2]
                  /\ pc' = pc
                  /\ llm' = Used("primary")
            [] OTHER ->
                  /\ GenReturn(o.text)
                  /\ llm' = Used("primary")
    /\ UNCHANGED <<call, librarian, req, db, resp, served>>

\* attempt 2 (lines 147-155): the primary model with thinking budget 0; an
\* exception is passed over.  Without a fallback model the empty-text marker
\* is returned
GenAttempt2 ==
    /\ pc \in GenSites
    /\ loc.attempt = 2
    /\ \E o \in AttemptOutcomes(pc) :
          /\ llm' = IF o.kind = "raise" THEN llm ELSE Used("primary")
          /\ IF o.kind # "text" /\ llm.fallback_model
             THEN /\ loc' = [loc EXCEPT !.attempt = 3]
                  /\ pc' = pc
             ELSE GenReturn(IF o.kind = "text" THEN o.text ELSE EmptyTextMarker)
    /\ UNCHANGED <<call, librarian, req, db, resp, served>>

\* attempt 3 (lines 158-170): the fallback model; an exception becomes the
\* fallback-error marker, no text the empty-text marker
GenAttempt3 ==
    /\ pc \in GenSites
    /\ loc.attempt = 3
    /\ \E o \in AttemptOutcomes(pc) :
          /\ llm' = IF o.kind = "raise" THEN llm ELSE Used("fallback")
          /\ GenReturn(IF o.kind = "text" THEN o.text
                       ELSE IF o.kind = "raise" THEN FallbackErrorMarker
                       ELSE EmptyTextMarker)
    /\ UNCHANGED <<call, librarian, req, db, resp, served>>

\* rewrite_intent, lines 306-309, and its return to ask
RewriteReturn ==
    /\ pc = "rewrite"
    /\ loc.attempt = 0
    /\ pc' = "retrieve"
    /\ loc' = [loc EXCEPT !.rewritten = RewriteOut(loc.out, req.message), !.out = <<>>]
    /\ UNCHANGED <<call, librarian, req, llm, db, resp, served>>

\* generate_tutoring, lines 353-426: raw1 is parsed and long_prompt is sent
TutorJsonReturn ==
    /\ pc = "tutor_json"
    /\ loc.attempt = 0
    /\ pc' = "tutor_long"
    /\ loc' = [loc EXCEPT !.raw1 = loc.out, !.out = <<>>, !.attempt = 1]
    /\ UNCHANGED <<call, librarian, req, llm, db, resp, served>>

\* generate_tutoring, lines 426-439, and its return to ask
TutorLongReturn ==
    /\ pc = "tutor_long"
    /\ loc.attempt = 0
    /\ pc' = "persist"
    /\ loc' = [loc EXCEPT !.raw1 = <<>>, !.out = <<>>,
                          !.tutoring = generate_tutoring(loc.raw1, loc.out,
                                          TopicName(loc.topic_guess), loc.retrieved_docs, loc.case)]
    /\ UNCHANGED <<call, librarian, req, llm, db, resp, served>>

\* line 428: librarian.retrieve(rewritten, top_k=5)
AskRetrieve ==
    /\ pc = "retrieve"
    /\ LET res == CachedRetrieve(cache, kb, scores, order, loc.rewritten, AskTopK)
       IN /\ cache' = res.cache
          /\ IF res.outcome = "ValueError" THEN Raise("retrieval", Called("retrieve"))
             ELSE /\ pc' = "map"
                  /\ loc' = [Called("retrieve") EXCEPT !.retrieved_docs = res.docs]
    /\ UNCHANGED <<call, kb, scores, order, ret, req, llm, db, resp, served>>

\* lines 431-434: ontology.map and diagram_builder.build; the ontology file
\* is absent, no node is selected
AskMap ==
    /\ pc = "map"
    /\ pc' = "lab"
    /\ loc' = [Called("map") EXCEPT !.selected_nodes = <<>>]
    /\ UNCHANGED <<call, librarian, req, llm, db, resp, served>>

\* lines 437-441: lab_coach.select_and_highlight; the cases file is absent,
\* and without selected nodes nothing is highlighted
AskLab ==
    /\ pc = "lab"
    /\ pc' = "tutor_json"
    /\ loc' = [Called("select_and_highlight") EXCEPT
                  !.case = IF Truthy(req.optional_artifacts)
                           THEN Case(Str(<<"provided">>), req.optional_artifacts)
                           ELSE Case(Str(<<"none">>), List(<<>>)),
                  !.highlights = <<>>,
                  !.attempt = 1]
    /\ UNCHANGED <<call, librarian, req, llm, db, resp, served>>

\* the row ask saves
InteractionRow(l, normalized, latency_ms) ==
    [session_id |-> l.session,
     user_message |-> req.message,
     rewritten_question |-> l.rewritten,
     topic_detected |-> l.topic_guess,
     retrieved_doc_ids |-> [i \in DOMAIN l.retrieved_docs |-> l.retrieved_docs[i].id],
     selected_concepts |-> [i \in DOMAIN l.selected_nodes |-> l.selected_nodes[i].id],
     case_id |-> l.case.case_id,
     strict_mode |-> req.strict_mode,
     final_answer_text |-> normalized.tutor.final_answer_text,
     practice_question |-> normalized.practice.question,
     latency_ms |-> latency_ms,
     token_usage |-> [usageMetadata |-> llm.last_usage, model_used |-> llm.last_model_used]]

\* lines 454-493: normalization, evidence pool, citation, backfill, and the
\* commit of the interaction row
Persist ==
    /\ pc = "persist"
    /\ LET normalized == AskPostprocess(loc.tutoring, loc.retrieved_docs, loc.case, loc.highlights)
           l == [loc EXCEPT !.normalized = normalized]
       IN \E ok \in BOOLEAN, latency_ms \in LatencyInputs :
             IF ok
             THEN /\ db' = [db EXCEPT !.interactions =
                                         Append(@, InteractionRow(l, normalized, latency_ms))]
                  /\ pc' = "respond"
                  /\ loc' = l
             ELSE /\ Raise("persistence", l)
                  /\ db' = db
    /\ UNCHANGED <<call, librarian, req, llm, resp, served>>

\* lines 499-540: the response of the normal path
Respond ==
    /\ pc = "respond"
    /\ resp' = ResponseBody(loc.normalized, loc.retrieved_docs, loc.highlights)
    /\ pc' = "finally"
    /\ UNCHANGED <<call, librarian, req, llm, db, loc, served>>

\* lines 542-544: db.rollback() and HTTPException(500)
Except ==
    /\ pc = "except"
    /\ resp' = ErrorResponse
    /\ pc' = "finally"
    /\ UNCHANGED <<call, librarian, req, llm, db, loc, served>>

\* lines 545-546: db.close(); the request is over
Finally ==
    /\ pc = "finally"
    /\ db' = [db EXCEPT !.open = FALSE]
    /\ pc' = "idle"
    /\ served' = served + 1
    /\ UNCHANGED <<call, librarian, req, llm, loc, resp>>

Next ==
    \/ \E r \in RequestInputs : Ask(r)
    \/ CreateUser
    \/ StartSession
    \/ ScopeCheck
    \/ GenStub
    \/ GenAttempt1
    \/ GenAttempt2
    \/ GenAttempt3
    \/ RewriteReturn
    \/ TutorJsonReturn
    \/ TutorLongReturn
    \/ AskRetrieve
    \/ AskMap
    \/ AskLab
    \/ Persist
    \/ Respond
    \/ Except
    \/ Finally

Spec == Init /\ [][Next]_vars

-----------------------------------------------------------------------------
(* Specification of concurrent /ask requests: ask is a plain def, so the   *)
(* server runs every request in a thread of its pool and the threads share *)
(* the singleton llm of api.py line 30 and the database.  pc, req, loc and *)
(* resp hold one value per thread.  A thread runs the statements of ask    *)
(* that read or write the attributes of llm: the three calls of            *)
(* _call_model and last_token_info, then the commit of its interaction row. *)

\* most requests served at the same time
MaxThreads == 2

Threads == 1..MaxThreads

\* the messages of the requests, one per thread
ServeMessages == <<<<"s", "m", "b">>, <<"L", "o", "g", "?">>, <<"p", "h", "i", "s", "h">>>>

\* the local variables of _call_model and ask in a thread: info is the
\* result of _call_model_on; usage and model are the values the thread itself
\* assigned to llm last; token_info is the value of last_token_info()
NoServeLocals ==
    [site |-> "none", attempt |-> 0, info |-> None, usage |-> <<>>, model |-> "primary",
     token_info |-> None]

InitServe ==
    /\ call = NoCall
    /\ NoLibrarian
    /\ pc = [t \in Threads |-> "idle"]
    /\ req = [t \in Threads |-> [message |-> ServeMessages[t], user_id |-> "anon"]]
    /\ llm \in LlmInputs
    /\ db = NoDb
    /\ loc = [t \in Threads |-> NoServeLocals]
    /\ resp = [t \in Threads |-> NoResponse]
    /\ served = 0

\* the thread goes on after _call_model returned at a site: to the next
\* call of _call_model, after the last one to line 490 of ask
ServeReturn(t, l) ==
    IF l.site = "rewrite"
    THEN /\ pc' = [pc EXCEPT ![t] = "call"]
         /\ loc' = [loc EXCEPT ![t] = [l EXCEPT !.site = "tutor_json", !.attempt = 1]]
    ELSE IF l.site = "tutor_json"
    THEN /\ pc' = [pc EXCEPT ![t] = "call"]
         /\ loc' = [loc EXCEPT ![t] = [l EXCEPT !.site = "tutor_long", !.attempt = 1]]
    ELSE /\ pc' = [pc EXCEPT ![t] = "token_info"]
         /\ loc' = [loc EXCEPT ![t] = [l EXCEPT !.site = "none", !.attempt = 0]]

\* an attempt of _call_model yielded no text: the next attempt, or the
\* return of a marker
ServeNextTier(t, l) ==
    IF l.attempt = 1 \/ (l.attempt = 2 /\ llm.fallback_model)
    THEN /\ pc' = [pc EXCEPT ![t] = "call"]
         /\ loc' = [loc EXCEPT ![t] = [l EXCEPT !.attempt = @ + 1]]
    ELSE ServeReturn(t, l)

\* a request arrives; it is in scope, and rewrite_intent calls _call_model
ServeAsk(t) ==
    /\ pc[t] = "idle"
    /\ pc' = [pc EXCEPT ![t] = "call"]
    /\ loc' = [loc EXCEPT ![t] = [NoServeLocals EXCEPT !.site = "rewrite", !.attempt = 1]]
    /\ db' = [db EXCEPT !.open = TRUE, !.users = @ \cup {req[t].user_id}]
    /\ UNCHANGED <<call, librarian, req, llm, resp, served>>

\* _call_model without api_key: no attribute of llm is assigned
ServeStub(t) ==
    /\ pc[t] = "call"
    /\ ~llm.api_key
    /\ ServeReturn(t, loc[t])
    /\ UNCHANGED <<call, librarian, req, llm, db, resp, served>>

\* _call_model_on: the request to the generation service returns data with
\* or without text, or raises; an exception of attempt 1 ends the request
\* in HTTP 500
ServeCallModelOn(t) ==
    /\ pc[t] = "call"
    /\ llm.api_key
    /\ \E kind \in {"raise", "empty", "text"} :
          IF kind = "raise"
          THEN /\ IF loc[t].attempt = 1
                  THEN /\ pc' = [pc EXCEPT ![t] = "done"]
                       /\ loc' = loc
                       /\ resp' = [resp EXCEPT ![t] = ErrorResponse]
                       /\ served' = served + 1
                  ELSE /\ ServeNextTier(t, loc[t])
                       /\ UNCHANGED <<resp, served>>
          ELSE /\ pc' = [pc EXCEPT ![t] = "set_usage"]
               /\ loc' = [loc EXCEPT ![t].info =
                            [text |-> kind = "text",
                             usage |-> <<loc[t].site, loc[t].attempt, t>>,
                             model |-> IF loc[t].attempt = 3 THEN "fallback" ELSE "primary"]]
               /\ UNCHANGED <<resp, served>>
    /\ UNCHANGED <<call, librarian, req, llm, db>>

\* self._last_usage = info["usage"]
ServeSetLastUsage(t) ==
    /\ pc[t] = "set_usage"
    /\ llm' = [llm EXCEPT !.last_usage = loc[t].info.usage]
    /\ loc' = [loc EXCEPT ![t].usage = loc[t].info.usage]
    /\ pc' = [pc EXCEPT ![t] = "set_model"]
    /\ UNCHANGED <<call, librarian, req, db, resp, served>>

\* self._last_model_used = info["model"], then the text is returned or the
\* next attempt made
ServeSetLastModelUsed(t) ==
    /\ pc[t] = "set_model"
    /\ llm' = [llm EXCEPT !.last_model_used = loc[t].info.model]
    /\ LET l == [loc[t] EXCEPT !.model = loc[t].info.model, !.info = None]
       IN IF loc[t].info.text THEN ServeReturn(t, l) ELSE ServeNextTier(t, l)
    /\ UNCHANGED <<call, librarian, req, db, resp, served>>

\* llm.last_token_info(), line 490
ServeLastTokenInfo(t) ==
    /\ pc[t] = "token_info"
    /\ loc' = [loc EXCEPT ![t].token_info =
                 [usageMetadata |-> llm.last_usage, model_used |-> llm.last_model_used]]
    /\ pc' = [pc EXCEPT ![t] = "save"]
    /\ UNCHANGED <<call, librarian, req, llm, db, resp, served>>

\* db.add(inter); db.commit(), and the return of the response
ServeSave(t) ==
    /\ pc[t] = "save"
    /\ db' = [db EXCEPT !.interactions =
                Append(@, [user_message |-> req[t].message,
                           token_usage |-> loc[t].token_info])]
    /\ pc' = [pc EXCEPT ![t] = "done"]
    /\ resp' = [resp EXCEPT ![t] = [status |-> 200]]
    /\ served' = served + 1
    /\ UNCHANGED <<call, librarian, req, llm, loc>>

NextServe ==
    \E t \in Threads :
        \/ ServeAsk(t)
        \/ ServeStub(t)
        \/ ServeCallModelOn(t)
        \/ ServeSetLastUsage(t)
        \/ ServeSetLastModelUsed(t)
        \/ ServeLastTokenInfo(t)
        \/ ServeSave(t)

SpecServe == InitServe /\ [][NextServe]_vars

PoolCalled == call.fn = "_evidence_pool"

\* index of the first occurrence of x in s
FirstIdx(s, x) == CHOOSE i \in 1..Len(s) : s[i] = x /\ \A j \in 1..(i - 1) : s[j] # x

\* the concatenation the pool is built from
CallEv == EvConcat(call.retrieved_docs, call.case, call.highlights)

\* C6: the evidence pool has no duplicate id, holds exactly the ids of the
\* concatenation (doc ids, then artifact ids, then line references), and lists
\* them in the order of their first appearance in that concatenation.
C6_PoolDedupFirstSeen ==
    PoolCalled =>
        LET ev == CallEv
            first == [i \in DOMAIN call.out |-> FirstIdx(ev, call.out[i])]
        IN /\ \A i, j \in DOMAIN call.out : i # j => call.out[i] # call.out[j]
           /\ Range(call.out) = Range(ev)
           /\ \A i, j \in DOMAIN call.out : i < j => first[i] < first[j]

\* a doc id that is also an artifact id and a line reference listed twice were
\* merged, and at least two ids remain
C6_Witness ==
    /\ PoolCalled
    /\ Len(call.out) >= 2
    /\ Len(CallEv) >= Len(call.out) + 2
    /\ \E d \in Range(call.retrieved_docs) :
          /\ NonEmptyStr(d.id)
          /\ d.id.s \in Range(PoolArtifactIds(CaseArtifacts(call.case)))

ValidDocIds(docs) == {d.id.s : d \in {x \in Range(docs) : NonEmptyStr(x.id)}}

ValidArtifactIds(arts) ==
    {PyOr(a.artifact_id, a.id).s :
        a \in {x \in Range(arts) : IsDict(x) /\ NonEmptyStr(PyOr(x.artifact_id, x.id))}}

ValidLineHighlights(hls) ==
    {h \in Range(hls) :
        IsDict(h) /\ NonEmptyStr(h.artifact_id) /\ IsInt(h.line) /\ h.line.n > 0}

\* C7: the pool is exactly the valid ids of the first 5 retrieved docs, the
\* valid ids of all case artifacts, and the references artifact_id:L<line> of
\* the valid line highlights among the first 10 highlights (so at most 10 of
\* them); invalid entries and span highlights contribute nothing.
C7_PoolIsUnion ==
    PoolCalled =>
        LET lineHls == ValidLineHighlights(Take(call.highlights, 10))
            lineRefs == {LineRef(h.artifact_id.s, h.line.n) : h \in lineHls}
        IN /\ Range(call.out) =
                ValidDocIds(Take(call.retrieved_docs, 5))
                    \cup ValidArtifactIds(CaseArtifacts(call.case))
                    \cup lineRefs
           /\ Cardinality(lineRefs) <= 10

\* more than 5 docs and more than 10 highlights were passed, the sixth doc and
\* the eleventh highlight are valid and absent from the pool, a span highlight
\* and an artifact without id were passed
C7_Witness ==
    /\ PoolCalled
    /\ Len(call.retrieved_docs) > 5
    /\ NonEmptyStr(call.retrieved_docs[6].id)
    /\ call.retrieved_docs[6].id.s \notin Range(call.out)
    /\ Len(call.highlights) > 10
    /\ call.highlights[11] \in ValidLineHighlights(call.highlights)
    /\ LineRef(call.highlights[11].artifact_id.s, call.highlights[11].line.n)
            \notin Range(call.out)
    /\ \E h \in Range(call.highlights) : IsDict(h) /\ h.span # None
    /\ Artifact(None, None) \in Range(CaseArtifacts(call.case))
    /\ Len(call.out) >= 7

CiteCalled == call.fn = "_ensure_text_has_citation"

\* a '[' followed, somewhere later, by a ']'
HasBracketPair(s) == \E i, j \in 1..Len(s) : i < j /\ s[i] = "[" /\ s[j] = "]"

\* s ends with suffix
EndsWith(s, suffix) ==
    Len(s) >= Len(suffix) /\ SubSeq(s, Len(s) - Len(suffix) + 1, Len(s)) = suffix

\* C5: the text returned by _ensure_text_has_citation holds a bracket pair,
\* for every text and every pool, the empty pool included; a text that came
\* without a pair ends with the first pool id in brackets.
C5_TextAlwaysCited ==
    CiteCalled =>
        /\ HasBracketPair(call.out)
        /\ (~HasBracketPair(call.text) /\ call.evidence_ids # <<>>) =>
              EndsWith(call.out, <<"[">> \o call.evidence_ids[1] \o <<"]">>)

PostCalled == call.fn = "postprocess"

\* the first two pool ids, or kb_scope_001 for the empty pool
ExpectedBackfill(pool) ==
    IF Len(pool) = 0 THEN List(<<Str(KbScope001)>>)
    ELSE IF Len(pool) = 1 THEN List(<<Str(pool[1])>>)
    ELSE List(<<Str(pool[1]), Str(pool[2])>>)

\* C8: after the postprocessing every normalized step carries a non-empty
\* string evidence id; a step that arrived without one carries the first two
\* pool ids, or kb_scope_001 for the empty pool, and a step that arrived with
\* one is unchanged.
C8_StepsCarryEvidence ==
    PostCalled =>
        LET arrived == _normalize_tutoring_payload(call.tutoring).tutor.steps
            steps == call.out.tutor.steps
        IN /\ Len(steps) = Len(arrived)
           /\ \A i \in DOMAIN steps :
                /\ \E k \in 1..Len(steps[i].evidence.xs) : NonEmptyStr(steps[i].evidence.xs[k])
                /\ steps[i].step = arrived[i].step
                /\ IF IsList(arrived[i].evidence)
                        /\ \E k \in 1..Len(arrived[i].evidence.xs) :
                                NonEmptyStr(arrived[i].evidence.xs[k])
                   THEN steps[i].evidence = arrived[i].evidence
                   ELSE steps[i].evidence = ExpectedBackfill(call.out.evidence_ids)

\* of two steps one arrived with an evidence id and kept it, the other arrived
\* with a list holding no id and was given the first two of three pool ids
C8_Witness ==
    /\ PostCalled
    /\ Len(call.out.evidence_ids) = 3
    /\ Len(call.out.tutor.steps) = 2
    /\ call.tutoring.steps.xs[1].evidence = List(<<Str(IdD(2))>>)
    /\ call.out.tutor.steps[1].evidence = List(<<Str(IdD(2))>>)
    /\ call.tutoring.steps.xs[2].evidence = List(<<Str(<<>>)>>)
    /\ call.out.tutor.steps[2].evidence =
            List(<<Str(call.out.evidence_ids[1]), Str(call.out.evidence_ids[2])>>)

\* an evidence value that holds a non-empty string id, as a list element or as
\* the value itself
CarriesEvidenceId(ev) ==
    \/ NonEmptyStr(ev)
    \/ IsList(ev) /\ \E k \in 1..Len(ev.xs) : NonEmptyStr(ev.xs[k])

\* C9: after the postprocessing the practice carries a non-empty string
\* evidence id, and a practice that arrived without one carries the first two
\* pool ids, or kb_scope_001 for the empty pool.
C9_PracticeCarriesEvidence ==
    PostCalled =>
        LET arrived == _normalize_tutoring_payload(call.tutoring).practice.evidence_ids
            ev == call.out.practice.evidence_ids
        IN /\ CarriesEvidenceId(ev)
           /\ ~CarriesEvidenceId(arrived) => ev = ExpectedBackfill(call.out.evidence_ids)

TutorCalled == call.fn = "generate_tutoring"

\* C4: the payload generate_tutoring returns has a non-empty final_answer_text,
\* a non-empty steps list and a practice with a non-empty question, for every
\* text of the generation service.
C4_TutoringNeverEmpty ==
    TutorCalled =>
        /\ call.out.final_answer_text.s # <<>>
        /\ IsList(call.out.steps) /\ call.out.steps.xs # <<>>
        /\ IsDict(call.out.practice)
        /\ NonEmptyStr(call.out.practice.question)

\* the score the query of call c gives its j-th returned document
ReturnedScore(c, j) ==
    Scores(kb, scores, c.q)[CHOOSE i \in 1..Len(kb) : kb[i].id = c.docs[j].id]

\* C10: every retrieve call returns a sequence of at most top_k results in
\* non-increasing order of score, and calls with the same query and top_k
\* return the same sequence, from the cache or recomputed.
C10_RetrieveTopKSorted ==
    \A n \in 1..Len(ret) :
        LET c == ret[n]
        IN /\ c.outcome = "return"
           /\ Len(c.docs) <= c.top_k
           /\ \A a, b \in 1..Len(c.docs) : a < b => ReturnedScore(c, a) >= ReturnedScore(c, b)
           /\ \A m \in 1..Len(ret) :
                (ret[m].q = c.q /\ ret[m].top_k = c.top_k) => ret[m].docs = c.docs

\* the request in progress has its response
Answered == resp.status # 0

\* the message contains none of the in-scope keywords
OutOfScope(message) == \A k \in ScopeKeywords : ~Contains(k, Lower(message))

\* the response is the refusal: kb_coverage "none", strict_evidence_used
\* true, and a source with id "kb_scope_001"
IsRefusal(r) ==
    /\ r.status = 200
    /\ r.kb_coverage = "none"
    /\ r.strict_evidence_used = TRUE
    /\ \E i \in 1..Len(r.sources) : r.sources[i].id = Str(KbScope001)

C2_RefusalCallsNothing ==
    /\ loc.refused =>
          /\ loc.trace = {}
          /\ llm.last_usage = <<>>
          /\ pc \in {"finally", "idle"}
          /\ resp = RefusalResponse
    /\ (req # NoRequest /\ ~req.strict_mode) => (~loc.refused /\ (Answered => ~IsRefusal(resp)))

\* a refusal was returned by a process whose generation client has an API
\* key and a fallback model
C2_Witness ==
    /\ pc = "idle"
    /\ served = 1
    /\ loc.refused
    /\ resp = RefusalResponse
    /\ llm.api_key
    /\ llm.fallback_model

\* C3: no failure of the generation service (an attempt that raises, returns
\* no text or returns malformed text, at any call site) ends the request in
\* HTTP 500.
C3_GenerationFailureTolerated ==
    resp.status = 500 => loc.exc # "generation"

\* the corpus index of the j-th document call c returned
ReturnedIndex(c, j) == CHOOSE i \in 1..Len(kb) : kb[i].id = c.docs[j].id

\* the query of call c gives two documents of the corpus the same score
HasTie(c) ==
    LET v == Scores(kb, scores, c.q)
    IN \E i, j \in 1..Len(kb) : i < j /\ v[i] = v[j]

\* C11: a retrieve call with a query that is not blank, on a corpus where two
\* documents have the same score (also when all score 0), returns its
\* documents of equal score in corpus order: of two returned documents with
\* the same score, the one with the smaller corpus index comes first.
C11_TiesInCorpusOrder ==
    \A n \in 1..Len(ret) :
        LET c == ret[n]
        IN (Strip(c.q) # <<>> /\ c.top_k >= 2 /\ HasTie(c)) =>
              /\ c.outcome = "return"
              /\ Len(c.docs) = Min(c.top_k, Len(kb))
              /\ \A a, b \in 1..Len(c.docs) :
                    (a < b /\ ReturnedScore(c, a) = ReturnedScore(c, b))
                        => ReturnedIndex(c, a) < ReturnedIndex(c, b)

\* the query of call c is empty or only whitespace
BlankQuery(c) == Strip(c.q) = <<>>

\* C12: no retrieve call raises; a call with a blank query or on an empty
\* corpus (knowledge base file absent) returns the empty sequence, and a call
\* with a query that is not blank on a corpus that is not empty returns its
\* results.
C12_RetrieveNeverRaises ==
    \A n \in 1..Len(ret) :
        LET c == ret[n]
        IN /\ c.outcome # "ValueError"
           /\ (BlankQuery(c) \/ kb = <<>>) => c.docs = <<>>
           /\ (~BlankQuery(c) /\ kb # <<>>) => Len(c.docs) = Min(c.top_k, Len(kb))

\* a call of map is recorded
MapCalled == call.fn = "map"

\* the ids of the nodes the recorded call returned
SelectedIds == {call.out.selected[j].id : j \in 1..Len(call.out.selected)}

\* the local score of the i-th loaded node in the recorded call
ScoreOf(i) == call.scores[call.nodes[i].id]

\* the load index of the j-th returned node
LoadIndex(j) == CHOOSE i \in 1..Len(call.nodes) : call.nodes[i] = call.out.selected[j]

\* C13: an edge of the concept graph is in the edge list map returns if and
\* only if its source id and its target id are both ids of returned nodes, so
\* no returned edge has an endpoint outside the selected node set, whether the
\* nodes were selected by score or by the topic fallback.
C13_EdgesBetweenSelected ==
    MapCalled =>
        /\ \A k \in 1..Len(call.edges) :
              (call.edges[k] \in Range(call.out.sel_edges))
                  <=> (call.edges[k].source \in SelectedIds /\ call.edges[k].target \in SelectedIds)
        /\ \A k \in 1..Len(call.out.sel_edges) :
              /\ call.out.sel_edges[k] \in Range(call.edges)
              /\ call.out.sel_edges[k].source \in SelectedIds
              /\ call.out.sel_edges[k].target \in SelectedIds

\* a call on the fallback path that returns some edges and leaves out an edge
\* from a selected node to a node that is not selected
C13_Witness ==
    /\ MapCalled
    /\ \A i \in 1..Len(call.nodes) : ScoreOf(i) = 0
    /\ call.out.sel_edges # <<>>
    /\ \E k \in 1..Len(call.edges) :
          /\ call.edges[k].source \in SelectedIds
          /\ call.edges[k].target \notin SelectedIds
          /\ call.edges[k] \notin Range(call.out.sel_edges)

\* the load indices of the nodes that score above 0 in the recorded call
Scored == {i \in 1..Len(call.nodes) : ScoreOf(i) > 0}

\* node i ranks before node j: a higher score, or the same score and an
\* earlier place in the loaded list
RanksBefore(i, j) == ScoreOf(i) > ScoreOf(j) \/ (ScoreOf(i) = ScoreOf(j) /\ i < j)

\* C14: when some node scores above 0, map returns the nodes that score above
\* 0, by descending score with equal scores in load order, cut to the first 7:
\* no node of score 0 and never more than 7 nodes.
C14_ScoredSelection ==
    (MapCalled /\ Scored # {}) =>
        LET sel == call.out.selected
        IN /\ Len(sel) = Min(7, Cardinality(Scored))
           /\ \A j \in 1..Len(sel) : sel[j] \in Range(call.nodes) /\ LoadIndex(j) \in Scored
           /\ \A a, b \in 1..Len(sel) : a < b => RanksBefore(LoadIndex(a), LoadIndex(b))
           /\ \A i \in Scored :
                 call.nodes[i] \notin Range(sel)
                     => \A j \in 1..Len(sel) : RanksBefore(LoadIndex(j), i)

\* a call where more than 7 nodes score above 0, with different scores and
\* with equal scores, and a returned node was loaded after the node behind it
C14_Witness ==
    /\ MapCalled
    /\ Cardinality(Scored) > 7
    /\ Len(call.out.selected) = 7
    /\ \E a, b \in 1..Len(call.out.selected) :
          a < b /\ LoadIndex(a) > LoadIndex(b)
    /\ \E a, b \in 1..Len(call.out.selected) :
          a < b /\ ScoreOf(LoadIndex(a)) = ScoreOf(LoadIndex(b))

\* the tokens of s that occur in the text of the recorded call
TokensInText(s) == {tok \in Range(Split(Lower(s))) : Contains(tok, call.text)}

\* C15: the score of a node is 2 times the number of distinct tokens of its
\* label that occur in the combined lowercase text, plus the number of tokens
\* of its description that occur in it, plus 1 for each of its tags that
\* occurs in it as a substring.
C15_ScoreCountsTokens ==
    MapCalled =>
        \A i \in 1..Len(call.nodes) :
            LET n == call.nodes[i]
            IN ScoreOf(i) = 2 * Cardinality(TokensInText(n.label))
                            + Cardinality(TokensInText(n.description))
                            + Cardinality({k \in 1..Len(n.tags) :
                                              Contains(Lower(n.tags[k]), call.text)})

\* the load indices of the nodes whose topic, as it is written in the
\* ontology, is in the text of the recorded call; a node without topic or
\* with an empty topic has none to find
TopicMatches ==
    {i \in 1..Len(call.nodes) :
        NonEmptyStr(call.nodes[i].topic) /\ Contains(call.nodes[i].topic.s, call.text)}

\* C16: when no node scores above 0, map returns the nodes whose topic occurs
\* in the combined lowercased text, in load order and at most 3 of them (the
\* first 3); when there is none, it returns no node and no edge.
C16_TopicFallback ==
    (MapCalled /\ Scored = {}) =>
        LET sel == call.out.selected
        IN /\ Len(sel) = Min(3, Cardinality(TopicMatches))
           /\ \A j \in 1..Len(sel) :
                 \E i \in TopicMatches :
                    /\ sel[j] = call.nodes[i]
                    /\ Cardinality({m \in TopicMatches : m < i}) = j - 1
           /\ TopicMatches = {} => (sel = <<>> /\ call.out.sel_edges = <<>>)

\* a fallback call with more than 3 topic matches, the first of them behind
\* a node whose topic is not in the text
C16_Witness ==
    /\ MapCalled
    /\ Scored = {}
    /\ Cardinality(TopicMatches) > 3
    /\ Len(call.out.selected) = 3
    /\ 1 \notin TopicMatches
    /\ NonEmptyStr(call.nodes[1].topic)

\* a call of select_and_highlight is recorded
LabCalled == call.fn = "select_and_highlight"

\* the caller of the recorded call supplied artifacts: a list that is not empty
Supplied == IsList(call.optional_artifacts) /\ call.optional_artifacts.xs # <<>>

\* the loaded cases that have the topic of the recorded call
CasesOfTopic ==
    {i \in 1..Len(call.cases) : Get(call.cases[i].topic) = Str(call.topic)}

\* C17: with supplied artifacts the case is {case_id: "provided"} holding
\* those artifacts in order, whatever the topic; otherwise it is the first
\* loaded case of the requested topic, without such a case the first loaded
\* case, and without loaded cases the case "none" that has no artifacts.
C17_CaseSelection ==
    LabCalled =>
        LET case == call.out.case
        IN /\ Supplied =>
                 /\ case.case_id = Str(<<"p", "r", "o", "v", "i", "d", "e", "d">>)
                 /\ case.artifacts = call.optional_artifacts
           /\ (~Supplied /\ CasesOfTopic # {}) =>
                 \E i \in CasesOfTopic :
                    case = call.cases[i] /\ \A j \in CasesOfTopic : i <= j
           /\ (~Supplied /\ CasesOfTopic = {} /\ call.cases # <<>>) => case = call.cases[1]
           /\ (~Supplied /\ call.cases = <<>>) =>
                 /\ case.case_id = Str(<<"n", "o", "n", "e">>)
                 /\ case.artifacts = List(<<>>)

\* a call without supplied artifacts where two loaded cases have the topic
\* and the first loaded case has another one
C17_Witness ==
    /\ LabCalled
    /\ ~Supplied
    /\ Cardinality(CasesOfTopic) > 1
    /\ 1 \notin CasesOfTopic
    /\ call.out.case # call.cases[1]

\* the artifacts of the case the recorded call selected, and their number
LabArtifacts == GetOr(call.out.case.artifacts, List(<<>>)).xs

\* the places of the line highlights and of the span highlights of artifact
\* a and selected node n in the returned list
LineHighlightsOf(a, n) ==
    {k \in 1..Len(call.out.highlights) :
        /\ call.out.highlights[k].line # None
        /\ call.out.highlights[k].artifact_id = ArtId(LabArtifacts[a])
        /\ call.out.highlights[k].concept_id = call.selected_nodes[n].id}

SpanHighlightsOf(a, n) ==
    {k \in 1..Len(call.out.highlights) :
        /\ call.out.highlights[k].span # None
        /\ call.out.highlights[k].artifact_id = ArtId(LabArtifacts[a])
        /\ call.out.highlights[k].concept_id = call.selected_nodes[n].id}

\* the lines of artifact a, and the tags of selected node n
LinesOf(a) == SplitLines(RawText(LabArtifacts[a]))
TagsOf(n) == NodeTags(call.selected_nodes[n])

\* line l of artifact a holds tag t of node n, whatever the case of the letters
LineHolds(a, l, n, t) == Contains(Lower(TagsOf(n)[t]), Lower(LinesOf(a)[l]))

\* C18: for every artifact, selected node and non-empty tag of the node there
\* is one line highlight for each line of the artifact that holds the tag
\* (letters of either case) and none for any other line; the highlight has the
\* line number counted from 1, the id of the node as concept_id and the line
\* as it is written, and the lines of one tag are all kept.
C18_LineHighlights ==
    LabCalled =>
        /\ \A a \in 1..Len(LabArtifacts), n \in 1..Len(call.selected_nodes) :
              \A t \in 1..Len(TagsOf(n)), l \in 1..Len(LinesOf(a)) :
                 TagsOf(n)[t] # <<>> =>
                    LET hs == {k \in LineHighlightsOf(a, n) :
                                  /\ call.out.highlights[k].line = IntV(l)
                                  /\ call.out.highlights[k].reason = Str(Reason(TagsOf(n)[t]))}
                    IN /\ Cardinality(hs) = IF LineHolds(a, l, n, t) THEN 1 ELSE 0
                       /\ \A k \in hs :
                             call.out.highlights[k].line_text = Str(LinesOf(a)[l])
        /\ \A k \in 1..Len(call.out.highlights) :
              call.out.highlights[k].line # None =>
                 \E a \in 1..Len(LabArtifacts), n \in 1..Len(call.selected_nodes) :
                    /\ k \in LineHighlightsOf(a, n)
                    /\ \E t \in 1..Len(TagsOf(n)), l \in 1..Len(LinesOf(a)) :
                          /\ TagsOf(n)[t] # <<>>
                          /\ call.out.highlights[k].line = IntV(l)
                          /\ call.out.highlights[k].reason = Str(Reason(TagsOf(n)[t]))
                          /\ LineHolds(a, l, n, t)

\* a call where a tag is on two lines of an artifact, on one of them twice
\* and in capitals on the other, and on no third line
C18_Witness ==
    /\ LabCalled
    /\ \E a \in 1..Len(LabArtifacts), n \in 1..Len(call.selected_nodes) :
          /\ Cardinality(LineHighlightsOf(a, n)) = 2
          /\ Len(TagsOf(n)) = 1
          /\ Len(LinesOf(a)) = 3
          /\ \E k \in LineHighlightsOf(a, n) :
                /\ call.out.highlights[k].line = IntV(3)
                /\ call.out.highlights[k].line_text = Str(<<"s", "m", "b", " ", "s", "m", "b">>)
          /\ \E k \in LineHighlightsOf(a, n) :
                /\ call.out.highlights[k].line = IntV(1)
                /\ call.out.highlights[k].line_text = Str(<<"S", "M", "B", " ", "o", "p", "e", "n">>)

\* the places of tag t of node n in the text of artifact a, counted from 0
PlacesOf(a, n, t) ==
    LET text == Lower(RawText(LabArtifacts[a]))
        tag == Lower(TagsOf(n)[t])
    IN {i \in 0..(Len(text) - Len(tag)) : SubSeq(text, i + 1, i + Len(tag)) = tag}

\* the non-empty tags of node n that occur in the text of artifact a
TagsIn(a, n) == {t \in 1..Len(TagsOf(n)) : TagsOf(n)[t] # <<>> /\ PlacesOf(a, n, t) # {}}

\* highlight k is the span highlight the claim describes for tag t
IsSpanOfTag(k, a, n, t) ==
    LET text == RawText(LabArtifacts[a])
        start == CHOOSE i \in PlacesOf(a, n, t) : \A j \in PlacesOf(a, n, t) : i <= j
        end == start + Len(TagsOf(n)[t])
        h == call.out.highlights[k]
    IN /\ h.span = [start |-> start, end |-> end]
       /\ h.excerpt = Str(SubSeq(text, Max(0, start - 30) + 1, Min(Len(text), end + 30)))

\* C19: for every artifact, selected node and tag that occurs in the text of
\* the artifact there is exactly one span highlight; its span starts at the
\* first place of the tag in the whole text (letters of either case) and
\* ends Len(tag) behind it, and its excerpt is the text from max(0, start - 30)
\* to min(len(text), end + 30).  Later places give no span highlight.
C19_SpanHighlights ==
    LabCalled =>
        \A a \in 1..Len(LabArtifacts), n \in 1..Len(call.selected_nodes) :
            /\ Cardinality(SpanHighlightsOf(a, n)) = Cardinality(TagsIn(a, n))
            /\ \A t \in TagsIn(a, n) : \E k \in SpanHighlightsOf(a, n) : IsSpanOfTag(k, a, n, t)
            /\ \A k \in SpanHighlightsOf(a, n) : \E t \in TagsIn(a, n) : IsSpanOfTag(k, a, n, t)

\* a call with a span highlight whose excerpt is cut on neither side, and a
\* span highlight of a tag that is at three places of its artifact
C19_Witness ==
    /\ LabCalled
    /\ \E a \in 1..Len(LabArtifacts), n \in 1..Len(call.selected_nodes) :
          \E k \in SpanHighlightsOf(a, n) :
             /\ call.out.highlights[k].span.start > 30
             /\ Len(call.out.highlights[k].excerpt.s) = 63
             /\ Len(RawText(LabArtifacts[a])) > 63
    /\ \E a \in 1..Len(LabArtifacts), n \in 1..Len(call.selected_nodes) :
          \E t \in TagsIn(a, n) :
             /\ Cardinality(PlacesOf(a, n, t)) = 3
             /\ Cardinality(SpanHighlightsOf(a, n)) = 1

\* C20: when a tag of a selected node occurs anywhere in the text of an
\* artifact (letters of either case), the call returns a line highlight and
\* a span highlight of that artifact with the id of the node as concept_id;
\* when no tag of the node occurs, it returns neither.
C20_LineAndSpanTogether ==
    LabCalled =>
        \A a \in 1..Len(LabArtifacts), n \in 1..Len(call.selected_nodes) :
            IF TagsIn(a, n) # {}
            THEN LineHighlightsOf(a, n) # {} /\ SpanHighlightsOf(a, n) # {}
            ELSE LineHighlightsOf(a, n) = {} /\ SpanHighlightsOf(a, n) = {}

-----------------------------------------------------------------------------
(* Claims about the builders of the response body *)

BuilderCalled(fn) == call # NoCall /\ call.fn = fn

\* C21: kb_coverage is determined by the number of retrieved documents
\* alone, in strict and in non-strict mode: "none" for no document, "low"
\* for one, "medium" for two, "high" for three or more.
C21_CoverageByDocCount ==
    BuilderCalled("_compute_kb_coverage") =>
        call.out = (CASE Len(call.retrieved_docs) = 0 -> "none"
                      [] Len(call.retrieved_docs) = 1 -> "low"
                      [] Len(call.retrieved_docs) = 2 -> "medium"
                      [] OTHER -> "high")

\* coverage computed for more than three documents when strict mode is off
C21_Witness ==
    /\ BuilderCalled("_compute_kb_coverage")
    /\ Len(call.retrieved_docs) > 3
    /\ ~call.strict_mode
    /\ call.out = "high"

CannedTopicDiagrams ==
    {DiagramPhishing, DiagramLateralMovement, DiagramPrivilegeEscalation, DiagramExfiltration}

\* C22: when no node is selected the diagram of the response is one of the
\* four canned topic diagrams (phishing, lateral movement, privilege
\* escalation, exfiltration) for every topic detect_topic yields, and the
\* diagram code is never empty.
C22_CannedDiagramForEveryTopic ==
    BuilderCalled("_build_diagram") =>
        /\ call.out.code # <<>>
        /\ call.nodes = <<>> => call.out.code \in CannedTopicDiagrams

\* C30: the steps list of a response is non-empty, has at most 8 entries,
\* and its entries are numbered 1, 2, ..., n in order without gaps, for
\* every normalized step list, also one in which steps have empty text.
C30_StepsNumberedWithoutGaps ==
    BuilderCalled("_build_steps") =>
        /\ call.out # <<>>
        /\ Len(call.out) <= StepsCap
        /\ \A j \in 1..Len(call.out) : StartsWith(call.out[j], Digits(j) \o <<".", " ">>)

-----------------------------------------------------------------------------
(* Claims about the response body of /ask *)

ResponseKeys ==
    {"topic", "title", "summary", "diagram", "steps", "sources", "practice",
     "strict_evidence_used", "kb_coverage"}

\* C23: every success response of /ask, of the refusal and of the normal
\* path, in strict and non-strict mode and without retrieved documents,
\* holds topic, title, summary, diagram{type, code, title}, steps, sources,
\* practice{question, hint, answer}, strict_evidence_used and a kb_coverage
\* of none, low, medium or high, and its sources list is not empty.
C23_ResponseContract ==
    resp.status = 200 =>
        /\ ResponseKeys \subseteq DOMAIN resp
        /\ DOMAIN resp.diagram = {"type", "code", "title"}
        /\ DOMAIN resp.practice = {"question", "hint", "answer"}
        /\ resp.strict_evidence_used \in BOOLEAN
        /\ resp.kb_coverage \in {"none", "low", "medium", "high"}
        /\ resp.sources # <<>>

\* a response of the normal path in strict mode for which nothing was retrieved
C23_Witness ==
    /\ resp.status = 200
    /\ ~loc.refused
    /\ req.strict_mode
    /\ loc.retrieved_docs = <<>>
    /\ resp.sources[1].id = Str(SourceNone)
    /\ resp.kb_coverage = "none"

\* the requests that have reached the end of ask, or are in it
Requests == served + (IF pc = "idle" THEN 0 ELSE 1)

\* the interaction row of the request that resp answers
RowOfRequest(row) ==
    /\ row.session_id = loc.session
    /\ row.user_message = req.message
    /\ row.rewritten_question = loc.rewritten
    /\ row.topic_detected = loc.topic_guess
    /\ row.retrieved_doc_ids = [i \in DOMAIN loc.retrieved_docs |-> loc.retrieved_docs[i].id]
    /\ row.selected_concepts = [i \in DOMAIN loc.selected_nodes |-> loc.selected_nodes[i].id]
    /\ row.case_id = loc.case.case_id
    /\ row.strict_mode = req.strict_mode
    /\ row.final_answer_text = loc.normalized.tutor.final_answer_text
    /\ row.practice_question = loc.normalized.practice.question
    /\ row.latency_ms \in LatencyInputs

\* C24: a request that ends in a success response has handed persistence
\* exactly one interaction record of its own: the last row saved is the
\* row of this request, and no request has saved more than one row.
C24_OneRecordPerSuccess ==
    resp.status = 200 =>
        /\ db.interactions # <<>>
        /\ Len(db.interactions) <= Requests
        /\ loc.normalized # None
        /\ RowOfRequest(db.interactions[Len(db.interactions)])

-----------------------------------------------------------------------------
(* Claims about the generation calls *)

\* an attempt of _call_model is about to be made
Attempting == pc \in GenSites /\ llm.api_key /\ loc.attempt \in 1..3

\* the step the tiers make of outcome o of the attempt: text is returned; no
\* text or an error leads to the next attempt, after the last one to a marker
TierStep(o) ==
    /\ pc' = pc
    /\ IF o.kind = "text" THEN loc'.attempt = 0 /\ loc'.out = o.text
       ELSE IF loc.attempt = 1 THEN loc'.attempt = 2
       ELSE IF loc.attempt = 2 /\ llm.fallback_model THEN loc'.attempt = 3
       ELSE loc'.attempt = 0 /\ loc'.out \in {EmptyTextMarker, FallbackErrorMarker}

\* C25: within one call of _call_model the attempts are made in the order
\* primary model, primary model with thinking budget 0, fallback model (if
\* one is configured), each only after the one before yielded no text; the
\* first non-empty text is returned, and an error or an empty result of any
\* attempt leads to the next tier and in the end to a marker.
C25_AttemptTiers ==
    [][Attempting => \E o \in AttemptOutcomes(pc) : TierStep(o)]_vars

\* the least element of a non-empty set of numbers
Least(S) == CHOOSE x \in S : \A y \in S : x <= y

\* the text after the opening quote of the value of the first "final_answer"
\* key, up to the next quote or the end of the text; line breaks are blanks
ScannedAnswer(raw) ==
    LET keys == {k \in 1..(Len(raw) - 2) : SubSeq(raw, k, k + 2) = <<Q, "final_answer", Q>>}
        colons == {j \in 1..Len(raw) : raw[j] = ":" /\ keys # {} /\ j >= Least(keys)}
        opens == {j \in 1..Len(raw) : raw[j] = Q /\ colons # {} /\ j > Least(colons)}
        closes == {j \in 1..Len(raw) : raw[j] = Q /\ opens # {} /\ j > Least(opens)}
        value == IF opens = {} THEN <<>>
                 ELSE SubSeq(raw, Least(opens) + 1,
                             IF closes = {} THEN Len(raw) ELSE Least(closes) - 1)
    IN Strip(ReplaceAll(ReplaceAll(value, <<"\\", "n">>, <<" ">>), <<"\n">>, <<" ">>))

\* the final_answer of the object the text parses as, nothing when the text
\* is no object or an object without members
ParsedAnswer(raw) ==
    LET obj == _safe_json_obj(raw)
    IN IF IsDict(obj) /\ obj.members > 0
       THEN Strip(PyStr(GetOr(obj.final_answer, Str(<<>>))))
       ELSE <<>>

\* C26: generate_tutoring recovers the answer in the order full parse, key
\* scan, canned default: the final_answer of a text that parses as a JSON
\* object is used; for a text that does not parse, the text after the
\* opening quote of the value of the "final_answer" key up to the next quote
\* or the end of the text; the canned answer only when both are empty.  The
\* answer is returned as _sanitize_short_answer leaves it.
C26_RecoveryChain ==
    TutorCalled =>
        LET raw == Strip(call.raw1)
            chosen == IF ParsedAnswer(raw) # <<>> THEN ParsedAnswer(raw)
                      ELSE IF ScannedAnswer(raw) # <<>> THEN ScannedAnswer(raw)
                      ELSE CannedAnswer
        IN call.out.final_answer_text.s = _sanitize_short_answer(chosen)

\* the answer of a text cut off inside the value of final_answer
C26_Witness ==
    /\ TutorCalled
    /\ call.raw1 = <<"{">> \o KeyFinalAnswer \o <<Q, "a">>
    /\ ~IsDict(_safe_json_obj(call.raw1))
    /\ call.out.final_answer_text.s = <<"a", ".">>

\* the first lines of the texts the generation service rewrites a message to
RewriteFirstLines == {Strip(FirstLine(Strip(t))) : t \in SiteTexts("rewrite")}

\* C29: rewrite_intent returns the trimmed user message when the generation
\* service yields no usable rewrite (no text, an error marker, or no API key
\* configured), otherwise the first line of the model's output; the rewritten
\* question never consists of prompt text.
C29_RewriteOrMessage ==
    pc = "retrieve" =>
        /\ loc.rewritten \in {Strip(req.message)} \cup RewriteFirstLines
        /\ ~llm.api_key => loc.rewritten = Strip(req.message)
        /\ ~Contains(<<"You are a concise rewriter">>, loc.rewritten)

\* C28: a request in which an internal failure occurred after the database
\* session was opened is answered with HTTP 500 and leaves no row of its
\* own behind (no user, session or interaction row: the database is as the
\* first request of a process found it), and the database session is closed
\* when a request is over, whatever its outcome.
C28_FailureLeavesNoRecord ==
    /\ (loc.exc # "none" /\ pc \in {"finally", "idle"}) => resp.status = 500
    /\ resp.status = 500 =>
          /\ db.users = NoDb.users
          /\ db.sessions = NoDb.sessions
          /\ db.interactions = NoDb.interactions
    /\ pc = "idle" => ~db.open

-----------------------------------------------------------------------------
(* Claims about concurrent requests *)

\* the thread that serves the request with this message
ThreadOf(message) == CHOOSE t \in Threads : req[t].message = message

\* C27: of two requests served at the same time neither observes state the
\* other wrote: the token usage and the model name in the interaction row
\* of a request are those of the generation calls of that request.
C27_RowHoldsOwnTokenUsage ==
    \A i \in 1..Len(db.interactions) :
        LET row == db.interactions[i]
            own == loc[ThreadOf(row.user_message)]
        IN row.token_usage = [usageMetadata |-> own.usage, model_used |-> own.model]

====
